---- MODULE Spec2Model ----
(***************************************************************************)
(* A model of the tailored-document generation pipeline of                 *)
(* apps/portal-python/jobbernaut/src (main.py, utils.py):                  *)
(* ResumeOptimizationPipeline.run schedules one process_job task per       *)
(* pending job under an asyncio semaphore; process_job takes a job through *)
(* input validation, the generation stages with their retry loops,         *)
(* rendering, compilation, cleanup and the status update.                  *)
(*                                                                         *)
(* asyncio runs one task at a time and switches tasks only at an await.    *)
(* The variable cur holds the job whose task owns the event loop (0 when   *)
(* every task is suspended), so the synchronous code between two awaits is *)
(* never interleaved with another job.                                     *)
(***************************************************************************)
EXTENDS Bags, Naturals, Integers, Sequences, FiniteSets, TLC

----------------------------------------------------------------------------
(* Bounds of the model *)

NumJobs == 2
MaxConcurrent == 2
MaxRuns == 2
MaxExtra == 2
MaxSegments == 3
MaxFaults == 2
MaxAttempts == 3
MaxEntries == 2
MaxText == 3

(* Constants of the program *)

max_retries == 2
api_max_retries == 2
max_validation_retries == 2
max_cl_retries == 2
min_length == 200
min_phone == 7
title_min == 3
title_max == 200
company_min == 2
company_max == 100
description_min == 100
description_max == 50000
education_min == 1
work_experience_min == 3
work_experience_max == 3
projects_min == 3
projects_max == 3
bullet_points_min == 4
bullet_points_max == 4
project_bullet_points_min == 4
project_bullet_points_max == 4
phone_digits == 10
phone_digits_with_country_code == 11
max_bullet_length == 118
max_category_length == 30
max_skills_length == 90
max_technologies_length == 70

Jobs == 1..NumJobs
Names == {"Ann"}

VARIABLES
    (* the applications file and the pipeline object *)
    status,                 \* job -> "pending" | "processed" (applications.yaml)
    inputValid,             \* job -> whether the job record satisfies _validate_job_inputs
    runNo,                  \* number of runs of main() started so far
    runState,               \* "idle" | "gathering" | "returned" | "raised"
    has_referral_contact,   \* set by _load_referral_contact at construction
    max_concurrent_jobs,    \* config value
    pending_jobs,           \* the sequence of jobs run() found pending
    summary,                \* what run() counted after gather
    (* the scheduler *)
    semaphore,              \* value of the asyncio.Semaphore
    results,                \* job -> "none" | "ok" | error text (gather's results)
    cur,                    \* job whose task is running, 0 if none
    (* one process_job task per job *)
    pc,                     \* job -> stage
    sub,                    \* job -> position inside a generation stage
    attempt,                \* job -> attempt counter of the current stage
    apiTry,                 \* job -> attempt counter inside call_poe_api
    calls,                  \* job -> stage -> call_poe_api invocations of the stage
    respHist,               \* job -> outcomes of the current stage's invocations
    resp,                   \* job -> the response being processed
    current_prompt,         \* job -> parts of the prompt of the next call
    failed_at,              \* job -> stage at which process_job raised
    job_resonance, company_research, tailored_resume, storytelling_arc,
    cover_letter_text,      \* job -> the artifacts process_job holds
    (* the file system *)
    files,                  \* job -> [file name -> run that wrote it] (output directory)
    debug,                  \* job -> [file name -> run that wrote it] (debug/)
    output_dir,             \* job -> whether the job's output directory exists
    latex,                  \* job -> [name of a .tex file -> the document rendered into it]
    learnings,              \* the incident log: incident -> number of entries
    learnings_ok,           \* whether learnings.yaml, if present, loads as a log
    (* the collaborators *)
    stub,                   \* job -> how the collaborators behave towards the job
    faults,                 \* faults the unconstrained collaborators produced so far
    (* a function of the program called on its own *)
    arg,                    \* the arguments of the call
    ret                     \* what the call returned or raised

batchVars == <<status, inputValid, runNo, has_referral_contact, max_concurrent_jobs,
               pending_jobs, summary, stub, learnings_ok>>
loopVars == <<attempt, apiTry, calls, respHist, resp, current_prompt>>
artifactVars == <<job_resonance, company_research, tailored_resume, storytelling_arc,
                  cover_letter_text>>
fsVars == <<files, debug, output_dir, latex, learnings>>
pipelineVars == <<batchVars, runState, semaphore, results, cur, pc, sub, failed_at,
                  loopVars, artifactVars, fsVars, faults>>
callVars == <<arg, ret>>
vars == <<pipelineVars, callVars>>

----------------------------------------------------------------------------
(* Stages of process_job *)

IntelStages == {"resonance", "research", "arc"}
GenStages == IntelStages \cup {"resume", "cover"}

StageOrder ==
    <<"validate", "resonance", "research", "resume", "arc", "cover", "render",
      "compile_resume", "compile_cover", "referral", "compile_ref_resume",
      "compile_ref_cover", "cleanup", "status", "done">>

StageRank(s) == CHOOSE i \in 1..Len(StageOrder) : StageOrder[i] = s

step_name(s) ==
    CASE s = "resonance" -> "Job Resonance Analysis"
      [] s = "research" -> "Company Research"
      [] s = "arc" -> "Storytelling Arc Generation"
      [] s = "resume" -> "Resume Generation"
      [] OTHER -> "Cover Letter"

output_filename_prefix(s) ==
    CASE s = "resonance" -> "Job_Resonance_Analysis"
      [] s = "research" -> "Company_Research"
      [] OTHER -> "Storytelling_Arc"

----------------------------------------------------------------------------
(* Responses of the generation collaborator *)

NoResp == [shape |-> "none", schema |-> FALSE, quality |-> FALSE, first_name |-> "",
           core |-> 0, pad |-> 0, att |-> 0, stage |-> "none"]

(* A response to a structured stage: text that is not JSON, JSON that is   *)
(* not an object, an object that violates the schema, one that passes the  *)
(* schema but not the quality thresholds, or a good one.                   *)
JsonResponses(s, a) ==
    { [NoResp EXCEPT !.shape = sh, !.att = a, !.stage = s] : sh \in {"malformed", "nonobject"} }
    \cup { [NoResp EXCEPT !.shape = "object", !.att = a, !.stage = s] }
    \cup (IF s \in IntelStages
          THEN { [NoResp EXCEPT !.shape = "object", !.schema = TRUE, !.quality = q,
                                !.att = a, !.stage = s] : q \in BOOLEAN }
          ELSE { [NoResp EXCEPT !.shape = "object", !.schema = TRUE, !.quality = TRUE,
                                !.first_name = n, !.att = a, !.stage = s] : n \in Names })

(* A response to the cover-letter stage: core characters of text inside    *)
(* pad characters of surrounding whitespace.                               *)
TextResponses(a) ==
    { [NoResp EXCEPT !.shape = "text", !.core = c, !.pad = p, !.att = a, !.stage = "cover"] :
        c \in {min_length - 1, min_length}, p \in {0, 1} }

Responses(s, a) == IF s = "cover" THEN TextResponses(a) ELSE JsonResponses(s, a)

(* A text taken with its surrounding whitespace *)
unstripped(r) == r

(* str.strip: the text without the surrounding whitespace, and its length *)
strip(r) == [r EXCEPT !.pad = 0]

len(r) == r.core + r.pad

IsGood(r) ==
    IF r.shape = "text" THEN len(strip(r)) >= min_length
    ELSE r.shape = "object" /\ r.schema /\ r.quality

Outcome(r) ==
    CASE r.shape = "text" -> IF len(strip(r)) >= min_length THEN "ok" ELSE "short"
      [] r.shape \in {"malformed", "nonobject"} -> r.shape
      [] ~r.schema -> "schema"
      [] ~r.quality -> "quality"
      [] OTHER -> "ok"

(* The collaborators of a job are unconstrained ("free": any response, at  *)
(* most MaxFaults faulty ones in a behaviour) or a fixed stub: "ok" always *)
(* answers well; "invalid" always answers with a schema-invalid object;    *)
(* "short" answers well but writes cover letters below the minimum length; *)
(* "down" fails every call at the transport.                               *)
FreeStubs == {"free"}
BatchStubs == {"ok", "invalid", "short", "down"}

Canonical(r) == r.pad = 0

StubAllows(kind, s, a, r, budget) ==
    CASE kind = "free" -> IsGood(r) \/ budget
      [] kind = "ok" -> IsGood(r) /\ Canonical(r)
      [] kind = "invalid" -> Outcome(r) = "schema"
      [] kind = "short" -> /\ Canonical(r)
                           /\ IF s = "cover" THEN Outcome(r) = "short" ELSE IsGood(r)
      [] OTHER -> FALSE

TransportMayFail(kind, budget) == kind = "down" \/ (kind = "free" /\ budget)

----------------------------------------------------------------------------
(* Files *)

NoFiles == [n \in {} |-> 0]

WriteFile(fs, name, content) ==
    [n \in DOMAIN fs \cup {name} |-> IF n = name THEN content ELSE fs[n]]

RemoveFiles(fs, names) == [n \in DOMAIN fs \ names |-> fs[n]]

AttemptFile(prefix, a, ext) == prefix \o ToString(a) \o ext

----------------------------------------------------------------------------
(* The initial state: nothing has run yet.  pend is the set of jobs the    *)
(* applications file lists as pending, limits the values the configuration *)
(* may give max_concurrent_jobs, stubs the collaborators a job may meet.    *)

NoCall == <<>>

NoSummary == [processed_count |-> 0, failed_count |-> 0, failed_jobs |-> <<>>]

InitWith(pend, limits, stubs) ==
    /\ status = [j \in Jobs |-> IF j \in pend THEN "pending" ELSE "processed"]
    /\ inputValid \in [Jobs -> BOOLEAN]
    /\ \A j \in Jobs \ pend : inputValid[j]
    /\ stub \in [Jobs -> stubs]
    /\ \A j \in Jobs : (j \notin pend \/ ~inputValid[j]) => stub[j] = CHOOSE k \in stubs : TRUE
    /\ runNo = 0
    /\ runState = "idle"
    /\ has_referral_contact = FALSE
    /\ max_concurrent_jobs \in limits
    /\ pending_jobs = <<>>
    /\ summary = NoSummary
    /\ semaphore = 0
    /\ results = [j \in Jobs |-> "none"]
    /\ cur = 0
    /\ pc = [j \in Jobs |-> "idle"]
    /\ sub = [j \in Jobs |-> "-"]
    /\ attempt = [j \in Jobs |-> 0]
    /\ apiTry = [j \in Jobs |-> 0]
    /\ calls = [j \in Jobs |-> [s \in GenStages |-> 0]]
    /\ respHist = [j \in Jobs |-> <<>>]
    /\ resp = [j \in Jobs |-> NoResp]
    /\ current_prompt = [j \in Jobs |-> <<>>]
    /\ failed_at = [j \in Jobs |-> "none"]
    /\ job_resonance = [j \in Jobs |-> NoResp]
    /\ company_research = [j \in Jobs |-> NoResp]
    /\ tailored_resume = [j \in Jobs |-> NoResp]
    /\ storytelling_arc = [j \in Jobs |-> NoResp]
    /\ cover_letter_text = [j \in Jobs |-> NoResp]
    /\ files = [j \in Jobs |-> NoFiles]
    /\ debug = [j \in Jobs |-> NoFiles]
    /\ output_dir = [j \in Jobs |-> FALSE]
    /\ latex = [j \in Jobs |-> NoFiles]
    /\ learnings = [e \in {} |-> 0]
    /\ learnings_ok \in BOOLEAN
    /\ faults = 0

----------------------------------------------------------------------------
(* run(): find the pending jobs, create the semaphore and one task per job *)

JobSeq == [i \in 1..NumJobs |-> i]

IsPending(j) == status[j] = "pending"

PendingJobs == SelectSeq(JobSeq, IsPending)

InBatch(j) == \E i \in 1..Len(pending_jobs) : pending_jobs[i] = j

(* profile/referral_contact.json as the constructor finds it: absent, not  *)
(* readable, not JSON, a falsy JSON value, a JSON value that is not an     *)
(* object, or an object whose email and phone are absent (None), falsy,    *)
(* of another type than str, or strings.                                   *)
NoField == [kind |-> "absent", at |-> FALSE, core |-> 0, pad |-> 0]

EmailValues ==
    { [NoField EXCEPT !.kind = k] : k \in {"absent", "falsy", "nonstring"} }
    \cup { [NoField EXCEPT !.kind = "string", !.at = b, !.core = 5] : b \in BOOLEAN }

PhoneValues ==
    { [NoField EXCEPT !.kind = k] : k \in {"absent", "falsy", "nonstring"} }
    \cup { [NoField EXCEPT !.kind = "string", !.core = c, !.pad = p] :
             c \in {min_phone - 1, min_phone}, p \in {0, 1} }

GoodEmail == [NoField EXCEPT !.kind = "string", !.at = TRUE, !.core = 5]

GoodPhone == [NoField EXCEPT !.kind = "string", !.core = min_phone]

(* The files differ from a valid one in the email, in the phone, or lack   *)
(* both.                                                                   *)
ReferralFiles ==
    { [content |-> c, email |-> NoField, phone |-> NoField] :
        c \in {"missing", "unreadable", "malformed", "falsy", "array"} }
    \cup { [content |-> "object", email |-> e, phone |-> ph] :
             e \in EmailValues, ph \in PhoneValues \cap {NoField, GoodPhone} }
    \cup { [content |-> "object", email |-> GoodEmail, phone |-> ph] : ph \in PhoneValues }

(* "not x" of Python for a field of the contact *)
Falsy(x) == x.kind \in {"absent", "falsy"}

(* A loader that accepts any phone string *)
load_without_phone_check(f) ==
    [enabled |-> /\ f.content = "object"
                 /\ ~Falsy(f.email) /\ ~Falsy(f.phone)
                 /\ f.email.kind = "string" /\ f.email.at
                 /\ f.phone.kind = "string",
     escaped |-> FALSE]

(* The exception the body of the try block raises, if any: load_json on a  *)
(* file that cannot be read or is not JSON, .get on a value that is not a  *)
(* mapping.                                                                *)
LoadRaises(f) ==
    CASE f.content = "unreadable" -> "OSError"
      [] f.content = "malformed" -> "JSONDecodeError"
      [] f.content = "array" -> "AttributeError"
      [] OTHER -> "none"

(* except json.JSONDecodeError, except Exception *)
LoaderCatches(exc) ==
    exc = "JSONDecodeError" \/ exc \in {"OSError", "AttributeError", "JSONDecodeError"}

(* _load_referral_contact: the flag it leaves, and whether an exception    *)
(* leaves it                                                               *)
_load_referral_contact(f) ==
    IF f.content = "missing" THEN [enabled |-> FALSE, escaped |-> FALSE]
    ELSE IF LoadRaises(f) # "none"
         THEN [enabled |-> FALSE, escaped |-> ~LoaderCatches(LoadRaises(f))]
    ELSE IF f.content = "falsy" THEN [enabled |-> FALSE, escaped |-> FALSE]
    ELSE IF Falsy(f.email) \/ Falsy(f.phone) THEN [enabled |-> FALSE, escaped |-> FALSE]
    ELSE IF f.email.kind # "string" \/ ~f.email.at THEN [enabled |-> FALSE, escaped |-> FALSE]
    ELSE IF f.phone.kind # "string" \/ len(strip(f.phone)) < min_phone
         THEN [enabled |-> FALSE, escaped |-> FALSE]
    ELSE [enabled |-> TRUE, escaped |-> FALSE]

(* The constructor, with the referral file f, and the start of run()       *)
StartRun(f) ==
    /\ runState \in {"idle", "returned", "raised"}
    /\ runNo < MaxRuns
    /\ runNo' = runNo + 1
    /\ has_referral_contact' = _load_referral_contact(f).enabled
    /\ pending_jobs' = PendingJobs
    /\ summary' = NoSummary
    /\ runState' = IF _load_referral_contact(f).escaped THEN "raised"
                   ELSE IF PendingJobs = <<>> THEN "returned" ELSE "gathering"
    /\ semaphore' = max_concurrent_jobs
    /\ results' = [j \in Jobs |-> "none"]
    /\ cur' = 0
    /\ pc' = [j \in Jobs |-> IF IsPending(j) THEN "waiting" ELSE "idle"]
    /\ sub' = [j \in Jobs |-> "-"]
    /\ attempt' = [j \in Jobs |-> 0]
    /\ apiTry' = [j \in Jobs |-> 0]
    /\ calls' = [j \in Jobs |-> [s \in GenStages |-> 0]]
    /\ respHist' = [j \in Jobs |-> <<>>]
    /\ resp' = [j \in Jobs |-> NoResp]
    /\ current_prompt' = [j \in Jobs |-> <<>>]
    /\ failed_at' = [j \in Jobs |-> "none"]
    /\ job_resonance' = [j \in Jobs |-> NoResp]
    /\ company_research' = [j \in Jobs |-> NoResp]
    /\ tailored_resume' = [j \in Jobs |-> NoResp]
    /\ storytelling_arc' = [j \in Jobs |-> NoResp]
    /\ cover_letter_text' = [j \in Jobs |-> NoResp]
    /\ UNCHANGED <<callVars, status, inputValid, max_concurrent_jobs, stub, learnings_ok, fsVars,
                   faults>>

(* A semaphore that never makes a task wait *)
SlotAlwaysFree == semaphore > 0 - NumJobs

(* async with semaphore: a task enters when the semaphore has a free slot  *)
SlotFree == semaphore > 0

(* An async with block that keeps its slot when it is left                 *)
SlotKept == semaphore

(* Leaving the async with block, by return or by exception                 *)
Release == semaphore + 1

(* gather without return_exceptions: the first exception leaves run() and *)
(* the tasks still running are cancelled when the event loop shuts down.   *)
GatherPropagates(j, err) ==
    /\ results' = [results EXCEPT ![j] = err]
    /\ pc' = [k \in Jobs |-> IF k = j THEN "failed"
                              ELSE IF pc[k] \in {"idle", "done", "failed"} THEN pc[k]
                              ELSE "cancelled"]
    /\ runState' = "raised"

(* gather(..., return_exceptions=True): an exception of one task becomes   *)
(* that task's result.                                                     *)
GatherException(j, err) ==
    /\ results' = [results EXCEPT ![j] = err]
    /\ pc' = [pc EXCEPT ![j] = "failed"]
    /\ runState' = runState

(* A task whose exception leaves the slot taken                            *)
RaiseHoldingSlot(j, err) ==
    /\ GatherException(j, err)
    /\ failed_at' = [failed_at EXCEPT ![j] = pc[j]]
    /\ sub' = [sub EXCEPT ![j] = "-"]
    /\ semaphore' = semaphore
    /\ cur' = 0

(* process_job raises err at its current stage                             *)
Raise(j, err) ==
    /\ GatherException(j, err)
    /\ failed_at' = [failed_at EXCEPT ![j] = pc[j]]
    /\ sub' = [sub EXCEPT ![j] = "-"]
    /\ semaphore' = Release
    /\ cur' = 0

(* Entering a generation stage with the attempt counter of the stage      *)
(* before                                                                  *)
StartStageKeepingAttempt(j, s) ==
    /\ pc' = [pc EXCEPT ![j] = s]
    /\ sub' = [sub EXCEPT ![j] = "call"]
    /\ attempt' = attempt
    /\ apiTry' = [apiTry EXCEPT ![j] = 0]
    /\ calls' = [calls EXCEPT ![j][s] = 0]
    /\ respHist' = [respHist EXCEPT ![j] = <<>>]
    /\ resp' = [resp EXCEPT ![j] = NoResp]
    /\ current_prompt' = [current_prompt EXCEPT ![j] = <<"base">>]

(* Entering a generation stage: its loop variables are fresh               *)
StartStage(j, s) ==
    /\ pc' = [pc EXCEPT ![j] = s]
    /\ sub' = [sub EXCEPT ![j] = "call"]
    /\ attempt' = [attempt EXCEPT ![j] = 1]
    /\ apiTry' = [apiTry EXCEPT ![j] = 0]
    /\ calls' = [calls EXCEPT ![j][s] = 0]
    /\ respHist' = [respHist EXCEPT ![j] = <<>>]
    /\ resp' = [resp EXCEPT ![j] = NoResp]
    /\ current_prompt' = [current_prompt EXCEPT ![j] = <<"base">>]

(* The next iteration of a retry loop, with the prompt p                   *)
NextAttempt(j, p) ==
    /\ attempt' = [attempt EXCEPT ![j] = attempt[j] + 1]
    /\ current_prompt' = [current_prompt EXCEPT ![j] = p]
    /\ sub' = [sub EXCEPT ![j] = "call"]
    /\ resp' = [resp EXCEPT ![j] = NoResp]
    /\ UNCHANGED <<pc, apiTry, calls, respHist>>

Acquire(j) ==
    /\ runState = "gathering"
    /\ pc[j] = "waiting"
    /\ cur = 0
    /\ SlotFree
    /\ semaphore' = semaphore - 1
    /\ pc' = [pc EXCEPT ![j] = "validate"]
    /\ cur' = j
    /\ UNCHANGED <<callVars, batchVars, runState, results, sub, failed_at, loopVars, artifactVars,
                   fsVars, faults>>

(* A field of a job record: absent (None), falsy (the empty string), of    *)
(* another type than str, or a string of core characters inside pad        *)
(* characters of whitespace.                                               *)
Text(c, p) == [NoField EXCEPT !.kind = "string", !.core = c, !.pad = p]

NonStrings == { [NoField EXCEPT !.kind = k] : k \in {"absent", "falsy", "nonstring"} }

FieldValues(lo, hi) ==
    NonStrings \cup {Text(lo - 1, 0), Text(lo - 1, 1), Text(lo, 0), Text(hi, 0), Text(hi, 1),
                     Text(hi + 1, 0)}

GoodRecord ==
    [job_id |-> Text(1, 0), job_title |-> Text(title_min, 0),
     company_name |-> Text(company_min, 0), job_description |-> Text(description_min, 0)]

(* The records differ from a valid one in one field *)
JobRecords ==
    { [GoodRecord EXCEPT !.job_id = v] : v \in NonStrings \cup {Text(0, 1), Text(1, 0)} }
    \cup { [GoodRecord EXCEPT !.job_title = v] : v \in FieldValues(title_min, title_max) }
    \cup { [GoodRecord EXCEPT !.company_name = v] :
             v \in FieldValues(company_min, company_max) }
    \cup { [GoodRecord EXCEPT !.job_description = v] :
             v \in FieldValues(description_min, description_max) }

(* "not x or not isinstance(x, str)" *)
NotAString(x) == Falsy(x) \/ x.kind # "string"

(* A validation without the upper bounds on the lengths *)
validate_without_upper_bounds(rec) ==
    IF \/ NotAString(rec.job_id) \/ len(strip(rec.job_id)) = 0
       \/ NotAString(rec.job_title) \/ len(strip(rec.job_title)) < title_min
       \/ NotAString(rec.company_name) \/ len(strip(rec.company_name)) < company_min
       \/ NotAString(rec.job_description)
       \/ len(strip(rec.job_description)) < description_min
    THEN "a field is missing or too short"
    ELSE "none"

(* _validate_job_inputs: the message of the ValueError it raises, if any   *)
_validate_job_inputs(rec) ==
    IF NotAString(rec.job_id) \/ len(strip(rec.job_id)) = 0
    THEN "job_id is required and must be a non-empty string"
    ELSE IF NotAString(rec.job_title) THEN "job_title is required and must be a string"
    ELSE IF len(strip(rec.job_title)) < title_min
         THEN "job_title must be at least 3 characters"
    ELSE IF len(rec.job_title) > title_max THEN "job_title is too long"
    ELSE IF NotAString(rec.company_name) THEN "company_name is required and must be a string"
    ELSE IF len(strip(rec.company_name)) < company_min
         THEN "company_name must be at least 2 characters"
    ELSE IF len(rec.company_name) > company_max THEN "company_name is too long"
    ELSE IF NotAString(rec.job_description)
         THEN "job_description is required and must be a string"
    ELSE IF len(strip(rec.job_description)) < description_min
         THEN "job_description is too short"
    ELSE IF len(rec.job_description) > description_max THEN "job_description is too long"
    ELSE "none"

(* Step 0 of process_job for a job whose record is rec, and the creation   *)
(* of the output directory that follows a successful validation.  The      *)
(* state keeps of the record whether it is valid.                          *)
ValidateInputs(j, rec) ==
    /\ pc[j] = "validate"
    /\ cur = j
    /\ inputValid[j] = (_validate_job_inputs(rec) = "none")
    /\ IF _validate_job_inputs(rec) = "none"
       THEN /\ StartStage(j, "resonance")
            /\ output_dir' = [output_dir EXCEPT ![j] = TRUE]
            /\ UNCHANGED <<runState, semaphore, results, cur, failed_at>>
       ELSE /\ Raise(j, "Invalid job inputs")
            /\ UNCHANGED <<loopVars, output_dir>>
    /\ UNCHANGED <<callVars, batchVars, artifactVars, files, debug, latex, learnings, faults>>

----------------------------------------------------------------------------
(* The retry decision *)

(* A loop that leaves on success only when no attempt remains *)
DecideNoBreak(ok, a, limit) ==
    IF a < limit THEN "retry" ELSE IF ok THEN "return" ELSE "raise"

(* A loop that falls back to the last response when the attempts run out *)
DecideFallback(ok, a, limit) ==
    IF ok THEN "return" ELSE IF a < limit THEN "retry" ELSE "return"

(* What a retry loop does with an attempt: return (or break) when the      *)
(* attempt passed, go round again while attempts remain, raise otherwise.  *)
Decide(ok, a, limit) ==
    IF ok THEN "return" ELSE IF a < limit THEN "retry" ELSE "raise"

----------------------------------------------------------------------------
(* call_poe_api *)

CallApi(j) ==
    /\ pc[j] \in GenStages
    /\ sub[j] = "call"
    /\ cur = j
    /\ calls' = [calls EXCEPT ![j][pc[j]] = @ + 1]
    /\ apiTry' = [apiTry EXCEPT ![j] = 1]
    /\ sub' = [sub EXCEPT ![j] = "await"]
    /\ cur' = 0
    /\ UNCHANGED <<callVars, batchVars, runState, semaphore, results, pc, failed_at, attempt,
                   respHist, resp, current_prompt, artifactVars, fsVars, faults>>

(* The collaborator answers with r                                         *)
ApiReturn(j, r) ==
    /\ pc[j] \in GenStages
    /\ sub[j] = "await"
    /\ cur = 0
    /\ StubAllows(stub[j], pc[j], attempt[j], r, faults < MaxFaults)
    /\ faults' = IF stub[j] = "free" /\ ~IsGood(r) THEN faults + 1 ELSE faults
    /\ resp' = [resp EXCEPT ![j] = r]
    /\ respHist' = [respHist EXCEPT ![j] = Append(respHist[j], Outcome(r))]
    /\ sub' = [sub EXCEPT ![j] = "got"]
    /\ cur' = j
    /\ UNCHANGED <<callVars, batchVars, runState, semaphore, results, pc, failed_at, attempt,
                   apiTry, calls, current_prompt, artifactVars, fsVars>>

(* The transport fails and call_poe_api tries again                        *)
ApiRetry(j) ==
    /\ pc[j] \in GenStages
    /\ sub[j] = "await"
    /\ cur = 0
    /\ apiTry[j] < api_max_retries
    /\ TransportMayFail(stub[j], faults < MaxFaults)
    /\ apiTry' = [apiTry EXCEPT ![j] = apiTry[j] + 1]
    /\ UNCHANGED <<callVars, batchVars, runState, semaphore, results, cur, pc, sub, failed_at,
                   attempt, calls, respHist, resp, current_prompt, artifactVars, fsVars,
                   faults>>

(* The transport fails on the last try: call_poe_api raises.  The retry    *)
(* loop of an intelligence stage catches it (except Exception) and goes on *)
(* to its next attempt; resume and cover-letter generation let it through. *)
ApiRaise(j) ==
    /\ pc[j] \in GenStages
    /\ sub[j] = "await"
    /\ cur = 0
    /\ apiTry[j] = api_max_retries
    /\ TransportMayFail(stub[j], faults < MaxFaults)
    /\ faults' = IF stub[j] = "free" THEN faults + 1 ELSE faults
    /\ IF pc[j] \in IntelStages /\ Decide(FALSE, attempt[j], max_retries) = "retry"
       THEN /\ attempt' = [attempt EXCEPT ![j] = attempt[j] + 1]
            /\ sub' = [sub EXCEPT ![j] = "call"]
            /\ respHist' = [respHist EXCEPT ![j] = Append(respHist[j], "transport")]
            /\ cur' = j
            /\ UNCHANGED <<runState, semaphore, results, pc, failed_at>>
       ELSE /\ Raise(j, IF pc[j] \in IntelStages
                        THEN step_name(pc[j]) \o " failed after 2 attempts"
                        ELSE "API call failed after 2 attempts")
            /\ respHist' = [respHist EXCEPT ![j] = Append(respHist[j], "transport")]
            /\ UNCHANGED attempt
    /\ UNCHANGED <<callVars, batchVars, apiTry, calls, resp, current_prompt, artifactVars, fsVars>>

----------------------------------------------------------------------------
(* The incident log *)

(* _log_validation_failure: load learnings.yaml, append, save.  It has no  *)
(* await, so no other task runs between the load and the save.  The log   *)
(* is kept as the bag of its entries: the order of the entries in the file *)
(* is the order of the appends.  When the file does not load as a mapping  *)
(* with a list of incidents, the load or the append raises and nothing is  *)
(* written.                                                                *)
Incident(step, j, a) == [step_name |-> step, job_id |-> j, attempt |-> a]

LogValidationFailure(log, step, j, a) ==
    LET e == Incident(step, j, a)
    IN [x \in DOMAIN log \cup {e} |-> IF x = e THEN (IF e \in DOMAIN log THEN log[e] + 1 ELSE 1)
                                       ELSE log[x]]

(* Feedback injected into the retry prompt: the JSON and quality feedback  *)
(* follow the base prompt, the schema feedback precedes it; a TypeError    *)
(* caught by except Exception leaves the prompt as it was.                 *)
(* The schema feedback put after the base prompt *)
SchemaFeedbackAppended(base) == base \o <<"VALIDATION ERRORS TO FIX">>

JsonFeedback(base) == base \o <<"JSON PARSING ERROR">>
SchemaFeedback(base) == <<"VALIDATION ERRORS TO FIX">> \o base
QualityFeedback(base) == base \o <<"OUTPUT QUALITY ERROR">>

LogError == "learnings.yaml could not be loaded"

RetryPrompt(out, prompt) ==
    CASE out = "malformed" -> JsonFeedback(<<"base">>)
      [] out = "schema" -> SchemaFeedback(<<"base">>)
      [] out \in {"quality", "short"} -> QualityFeedback(<<"base">>)
      [] OTHER -> prompt

(* The raw file of attempt a of stage s and what is written to it: the    *)
(* response of the call, in the cover-letter loop the stripped response.   *)
save_raw_response(s, a, r) ==
    CASE s \in IntelStages ->
           [name |-> AttemptFile(output_filename_prefix(s) \o "_Raw_Attempt_", a, ".txt"),
            content |-> r]
      [] s = "resume" ->
           [name |-> AttemptFile("Resume_Response_Attempt_", a, ".txt"), content |-> r]
      [] OTHER ->
           [name |-> AttemptFile("CoverLetter_Raw_Attempt_", a, ".txt"), content |-> strip(r)]

----------------------------------------------------------------------------
(* The retry loops *)

(* An order in which the storytelling arc is written before the resume *)
NextStageArcFirst(s) ==
    CASE s = "resonance" -> "research"
      [] s = "research" -> "arc"
      [] s = "arc" -> "resume"
      [] s = "resume" -> "cover"
      [] OTHER -> "render"

(* The order of the generation stages in process_job *)
NextStage(s) ==
    CASE s = "resonance" -> "research"
      [] s = "research" -> "resume"
      [] s = "resume" -> "arc"
      [] s = "arc" -> "cover"
      [] OTHER -> "render"

ExhaustedError(s) == step_name(s) \o " failed after 2 attempts"

(* Leaving the generation stages for stage s *)
GoTo(j, s) ==
    /\ pc' = [pc EXCEPT ![j] = s]
    /\ sub' = [sub EXCEPT ![j] = "-"]

(* _call_intelligence_step_with_retry, from the response of call_poe_api   *)
(* to the next call, the return or the raise.  Every failure inside the    *)
(* try block, the ValueError of the last attempt and an exception of       *)
(* _log_validation_failure included, ends in the handler of except         *)
(* Exception, which goes round again while attempts remain.                *)
ProcessIntelligence(j) ==
    LET s == pc[j]
        r == resp[j]
        a == attempt[j]
        out == Outcome(r)
        d == Decide(out = "ok", a, max_retries)
        logRaises == out = "schema" /\ ~learnings_ok
        saved == WriteFile(files[j], save_raw_response(s, a, r).name, runNo)
    IN
    /\ s \in IntelStages
    /\ sub[j] = "got"
    /\ cur = j
    /\ learnings' = IF out = "schema" /\ learnings_ok
                    THEN LogValidationFailure(learnings, step_name(s), j, a)
                    ELSE learnings
    /\ files' = [files EXCEPT ![j] =
                    IF d = "return"
                    THEN WriteFile(saved, output_filename_prefix(s) \o ".json", runNo)
                    ELSE saved]
    /\ CASE d = "return" ->
              /\ job_resonance' = IF s = "resonance" THEN [job_resonance EXCEPT ![j] = r]
                                  ELSE job_resonance
              /\ company_research' = IF s = "research"
                                     THEN [company_research EXCEPT ![j] = r]
                                     ELSE company_research
              /\ storytelling_arc' = IF s = "arc" THEN [storytelling_arc EXCEPT ![j] = r]
                                     ELSE storytelling_arc
              /\ StartStage(j, NextStage(s))
              /\ UNCHANGED <<runState, semaphore, results, cur, failed_at>>
         [] d = "retry" ->
              /\ NextAttempt(j, IF logRaises THEN current_prompt[j]
                                 ELSE RetryPrompt(out, current_prompt[j]))
              /\ UNCHANGED <<runState, semaphore, results, cur, failed_at, job_resonance,
                             company_research, storytelling_arc>>
         [] OTHER ->
              /\ Raise(j, ExhaustedError(s))
              /\ UNCHANGED <<loopVars, job_resonance, company_research, storytelling_arc>>
    /\ UNCHANGED <<callVars, batchVars, tailored_resume, cover_letter_text, debug, output_dir, latex, faults>>

(* What the resume loop does with an attempt: an exception that is not a  *)
(* JSONDecodeError or a ValidationError (the TypeError of a response that  *)
(* is no object, an exception of _log_validation_failure or of             *)
(* call_poe_api) leaves the loop and process_job.                          *)
ResumeDecision(out, a, logRaises) ==
    IF out \in {"nonobject", "transport"} \/ logRaises THEN "raise"
    ELSE Decide(out = "ok", a, max_validation_retries)

(* The resume retry loop of process_job.  A response that is JSON but not  *)
(* an object makes the TailoredResume constructor raise TypeError, which   *)
(* the loop does not catch; nor does it catch an exception of              *)
(* _log_validation_failure.                                                *)
ProcessResume(j) ==
    LET r == resp[j]
        a == attempt[j]
        out == Outcome(r)
        logRaises == out = "schema" /\ ~learnings_ok
        d == ResumeDecision(out, a, logRaises)
        saved == WriteFile(files[j], save_raw_response("resume", a, r).name, runNo)
        extracted == IF out = "malformed" THEN saved
                     ELSE WriteFile(saved, AttemptFile("Resume_JSON_Attempt_", a, ".json"),
                                    runNo)
        invalid == IF out = "schema"
                   THEN WriteFile(extracted,
                                  AttemptFile("Resume_INVALID_Attempt_", a, ".json"), runNo)
                   ELSE extracted
    IN
    /\ pc[j] = "resume"
    /\ sub[j] = "got"
    /\ cur = j
    /\ learnings' = IF out = "schema" /\ learnings_ok
                    THEN LogValidationFailure(learnings, step_name("resume"), j, a)
                    ELSE learnings
    /\ files' = [files EXCEPT ![j] =
                    IF d = "return" THEN WriteFile(invalid, "Resume.json", runNo) ELSE invalid]
    /\ CASE d = "return" ->
              /\ tailored_resume' = [tailored_resume EXCEPT ![j] = r]
              /\ StartStage(j, NextStage("resume"))
              /\ UNCHANGED <<runState, semaphore, results, cur, failed_at>>
         [] d = "retry" ->
              /\ NextAttempt(j, RetryPrompt(out, current_prompt[j]))
              /\ UNCHANGED <<runState, semaphore, results, cur, failed_at, tailored_resume>>
         [] OTHER ->
              /\ Raise(j, CASE out = "nonobject" -> "TypeError"
                            [] logRaises -> LogError
                            [] out = "malformed" ->
                                 "Failed to extract valid JSON after 2 attempts"
                            [] OTHER -> "Pydantic validation failed after 2 attempts")
              /\ UNCHANGED <<loopVars, tailored_resume>>
    /\ UNCHANGED <<callVars, batchVars, job_resonance, company_research, storytelling_arc,
                   cover_letter_text, debug, output_dir, latex, faults>>

(* The cover-letter retry loop of process_job *)
ProcessCoverLetter(j) ==
    LET r == resp[j]
        a == attempt[j]
        d == Decide(len(strip(r)) >= min_length, a, max_cl_retries)
        saved == WriteFile(files[j], save_raw_response("cover", a, r).name, runNo)
    IN
    /\ pc[j] = "cover"
    /\ sub[j] = "got"
    /\ cur = j
    /\ files' = [files EXCEPT ![j] =
                    IF d = "return" THEN WriteFile(saved, "CoverLetter.txt", runNo) ELSE saved]
    /\ CASE d = "return" ->
              /\ cover_letter_text' = [cover_letter_text EXCEPT ![j] = strip(r)]
              /\ GoTo(j, NextStage("cover"))
              /\ resp' = [resp EXCEPT ![j] = NoResp]
              /\ UNCHANGED <<runState, semaphore, results, cur, failed_at, attempt, apiTry,
                             calls, respHist, current_prompt>>
         [] d = "retry" ->
              /\ NextAttempt(j, RetryPrompt("short", current_prompt[j]))
              /\ UNCHANGED <<runState, semaphore, results, cur, failed_at,
                             cover_letter_text>>
         [] OTHER ->
              /\ Raise(j, "Cover letter generation failed quality validation after 2 attempts.")
              /\ UNCHANGED <<loopVars, cover_letter_text>>
    /\ UNCHANGED <<callVars, batchVars, job_resonance, company_research, tailored_resume,
                   storytelling_arc, debug, output_dir, latex, learnings, faults>>

----------------------------------------------------------------------------
(* Rendering: process_job writes the two markup sources                    *)

(* The data of a validated resume: its contact block and the rest.  The    *)
(* name is that of the response; phone and email are those the resume has. *)
contact_info(r) ==
    [first_name |-> r.first_name, last_name |-> "last name of the resume",
     phone |-> "phone of the resume", email |-> "email of the resume"]

resume_data(r) == [contact_info |-> contact_info(r), rest |-> r]

(* TemplateRenderer.render_resume and render_cover_letter: the document is *)
(* the template filled with the contact block and with the rest of the     *)
(* resume (sorted the same way whatever the contact block) or the text     *)
render_resume(data) ==
    [template |-> "resume.jinja2", contact_info |-> data.contact_info, body |-> data.rest]

render_cover_letter(contact, text) ==
    [template |-> "cover_letter.jinja2", contact_info |-> contact, body |-> text]

(* The contact block of the referral documents *)
referral_contact(contact) ==
    [first_name |-> contact.first_name, last_name |-> contact.last_name,
     phone |-> "self.referral_phone", email |-> "self.referral_email"]

render_resume_with_referral(data, contact) ==
    render_resume([data EXCEPT !.contact_info = contact])

render_cover_letter_with_referral(text, contact) == render_cover_letter(contact, text)

RenderDocuments(j) ==
    /\ pc[j] = "render"
    /\ cur = j
    /\ files' = [files EXCEPT ![j] =
                    WriteFile(WriteFile(files[j], "Resume.tex", runNo), "CoverLetter.tex", runNo)]
    /\ latex' = [latex EXCEPT ![j] =
                  WriteFile(WriteFile(latex[j], "Resume.tex",
                                      render_resume(resume_data(tailored_resume[j]))),
                            "CoverLetter.tex",
                            render_cover_letter(contact_info(tailored_resume[j]),
                                                cover_letter_text[j]))]
    /\ GoTo(j, "compile_resume")
    /\ UNCHANGED <<callVars, batchVars, runState, semaphore, results, cur, failed_at, loopVars,
                   artifactVars, debug, output_dir, learnings, faults>>

----------------------------------------------------------------------------
(* compile_latex_to_pdf *)

(* What one pdflatex pass does: its exit status, whether it wrote the PDF, *)
(* and whether it ran into the 120 s timeout.                              *)
PassOutcomes ==
    { [rc |-> c, pdf |-> w, timeout |-> FALSE] : c \in {0, 1}, w \in BOOLEAN }
    \cup { [rc |-> 1, pdf |-> w, timeout |-> TRUE] : w \in BOOLEAN }

Nominal(o) == o.rc = 0 /\ o.pdf /\ ~o.timeout

AuxFiles(base) == {base \o ".aux", base \o ".log", base \o ".out"}

(* A pass whose timeout is not an error *)
RunPassIgnoringTimeout(fs, base, o, run) ==
    LET f1 == WriteFile(WriteFile(fs, base \o ".log", run), base \o ".aux", run)
        written == IF o.pdf THEN WriteFile(f1, base \o ".pdf", run) ELSE f1
    IN [fs |-> written,
        err |-> IF ~o.timeout /\ o.rc # 0 /\ (base \o ".pdf") \notin DOMAIN written
                THEN "LaTeX compilation failed."
                ELSE "none"]

RunPass(fs, base, o, run) ==
    LET f1 == WriteFile(WriteFile(fs, base \o ".log", run), base \o ".aux", run)
        written == IF o.pdf THEN WriteFile(f1, base \o ".pdf", run) ELSE f1
    IN [fs |-> written,
        err |-> IF o.timeout THEN "LaTeX compilation timed out after 120 seconds."
                ELSE IF o.rc # 0 /\ (base \o ".pdf") \notin DOMAIN written
                     THEN "LaTeX compilation failed."
                     ELSE "none"]

(* A compilation that goes by the exit status of the passes *)
compile_by_exit_status(fs, base, cls, o1, o2, run) ==
    LET f0 == WriteFile(fs, cls, run)
        p1 == RunPass(f0, base, o1, run)
        p2 == RunPass(p1.fs, base, o2, run)
    IN IF o1.timeout \/ o1.rc # 0
       THEN [fs |-> p1.fs, err |-> "LaTeX compilation failed.", passes |-> 1]
       ELSE IF o2.timeout \/ o2.rc # 0
            THEN [fs |-> p2.fs, err |-> "LaTeX compilation failed.", passes |-> 2]
            ELSE [fs |-> RemoveFiles(p2.fs, AuxFiles(base)), err |-> "none", passes |-> 2]

(* A compilation that makes one pass *)
compile_in_one_pass(fs, base, cls, o1, o2, run) ==
    LET f0 == WriteFile(fs, cls, run)
        p1 == RunPass(f0, base, o1, run)
        cleaned == RemoveFiles(p1.fs, AuxFiles(base))
    IN IF p1.err # "none" THEN [fs |-> p1.fs, err |-> p1.err, passes |-> 1]
       ELSE IF (base \o ".pdf") \notin DOMAIN cleaned
            THEN [fs |-> cleaned, err |-> "PDF was not generated.", passes |-> 1]
            ELSE [fs |-> cleaned, err |-> "none", passes |-> 1]

compile_latex_to_pdf(fs, base, cls, o1, o2, run) ==
    LET f0 == WriteFile(fs, cls, run)
        p1 == RunPass(f0, base, o1, run)
        p2 == RunPass(p1.fs, base, o2, run)
        cleaned == RemoveFiles(p2.fs, AuxFiles(base))
    IN IF p1.err # "none" THEN [fs |-> p1.fs, err |-> p1.err, passes |-> 1]
       ELSE IF p2.err # "none" THEN [fs |-> p2.fs, err |-> p2.err, passes |-> 2]
       ELSE IF (base \o ".pdf") \notin DOMAIN cleaned
            THEN [fs |-> cleaned, err |-> "PDF was not generated.", passes |-> 2]
            ELSE [fs |-> cleaned, err |-> "none", passes |-> 2]

(* shutil.move within one directory *)
MoveFile(fs, src, dst) ==
    [n \in (DOMAIN fs \ {src}) \cup {dst} |-> IF n = dst THEN fs[src] ELSE fs[n]]

(* Names of the final PDFs: the name in the resume, the company and the job id *)
FinalName(prefix, first_name, j, kind) ==
    prefix \o first_name \o "_Co_" \o ToString(j) \o kind

TexBase(s) ==
    CASE s = "compile_resume" -> "Resume"
      [] s = "compile_cover" -> "CoverLetter"
      [] s = "compile_ref_resume" -> "Referral_Resume"
      [] OTHER -> "Referral_CoverLetter"

ClsFile(s) ==
    IF s \in {"compile_resume", "compile_ref_resume"} THEN "resume.cls" ELSE "coverletter.cls"

FinalPdf(s, first_name, j) ==
    CASE s = "compile_resume" -> FinalName("", first_name, j, "_Resume.pdf")
      [] s = "compile_cover" -> FinalName("", first_name, j, "_Cover_Letter.pdf")
      [] s = "compile_ref_resume" -> FinalName("Referral_", first_name, j, "_Resume.pdf")
      [] OTHER -> FinalName("Referral_", first_name, j, "_Cover_Letter.pdf")

AfterCompile(s) ==
    CASE s = "compile_resume" -> "compile_cover"
      [] s = "compile_cover" -> "referral"
      [] s = "compile_ref_resume" -> "compile_ref_cover"
      [] OTHER -> "cleanup"

CompileStages == {"compile_resume", "compile_cover", "compile_ref_resume", "compile_ref_cover"}

(* Steps 5, 6, 8 and 9 of process_job: compile one document and rename it  *)
Compile(j, o1, o2) ==
    LET s == pc[j]
        c == compile_latex_to_pdf(files[j], TexBase(s), ClsFile(s), o1, o2, runNo)
    IN
    /\ s \in CompileStages
    /\ cur = j
    /\ (Nominal(o1) /\ Nominal(o2)) \/ (stub[j] = "free" /\ faults < MaxFaults)
    /\ faults' = IF Nominal(o1) /\ Nominal(o2) THEN faults ELSE faults + 1
    /\ IF c.err = "none"
       THEN /\ files' = [files EXCEPT ![j] =
                            MoveFile(c.fs, TexBase(s) \o ".pdf",
                                     FinalPdf(s, tailored_resume[j].first_name, j))]
            /\ GoTo(j, AfterCompile(s))
            /\ UNCHANGED <<runState, semaphore, results, cur, failed_at>>
       ELSE /\ files' = [files EXCEPT ![j] = c.fs]
            /\ Raise(j, c.err)
    /\ UNCHANGED <<callVars, batchVars, loopVars, artifactVars, debug, output_dir, latex, learnings>>

(* Step 7: the referral branch *)
Referral(j) ==
    /\ pc[j] = "referral"
    /\ cur = j
    /\ IF has_referral_contact
       THEN /\ files' = [files EXCEPT ![j] =
                            WriteFile(WriteFile(files[j], "Referral_Resume.tex", runNo),
                                      "Referral_CoverLetter.tex", runNo)]
            /\ LET contact == referral_contact(contact_info(tailored_resume[j]))
               IN latex' = [latex EXCEPT ![j] =
                            WriteFile(WriteFile(latex[j], "Referral_Resume.tex",
                                                render_resume_with_referral(
                                                    resume_data(tailored_resume[j]), contact)),
                                      "Referral_CoverLetter.tex",
                                      render_cover_letter_with_referral(cover_letter_text[j],
                                                                        contact))]
            /\ GoTo(j, "compile_ref_resume")
       ELSE /\ GoTo(j, "cleanup")
            /\ UNCHANGED <<files, latex>>
    /\ UNCHANGED <<callVars, batchVars, runState, semaphore, results, cur, failed_at, loopVars,
                   artifactVars, debug, output_dir, learnings, faults>>

----------------------------------------------------------------------------
(* cleanup_output_directory *)

final_pdfs(first_name, j) ==
    { FinalName("", first_name, j, "_Resume.pdf"),
      FinalName("", first_name, j, "_Cover_Letter.pdf"),
      FinalName("Referral_", first_name, j, "_Resume.pdf"),
      FinalName("Referral_", first_name, j, "_Cover_Letter.pdf") }

(* A cleanup that removes the intermediate files instead of moving them *)
cleanup_deletes(fs, dbg, first_name, j) ==
    [files |-> [n \in DOMAIN fs \cap final_pdfs(first_name, j) |-> fs[n]], debug |-> dbg]

cleanup_output_directory(fs, dbg, first_name, j) ==
    LET moved == DOMAIN fs \ final_pdfs(first_name, j)
    IN [files |-> [n \in DOMAIN fs \ moved |-> fs[n]],
        debug |-> [n \in DOMAIN dbg \cup moved |-> IF n \in moved THEN fs[n] ELSE dbg[n]]]

Cleanup(j) ==
    LET c == cleanup_output_directory(files[j], debug[j], tailored_resume[j].first_name, j)
    IN
    /\ pc[j] = "cleanup"
    /\ cur = j
    /\ files' = [files EXCEPT ![j] = c.files]
    /\ debug' = [debug EXCEPT ![j] = c.debug]
    /\ GoTo(j, "status")
    /\ UNCHANGED <<callVars, batchVars, runState, semaphore, results, cur, failed_at, loopVars,
                   artifactVars, output_dir, latex, learnings, faults>>

(* update_job_status, then process_job returns *)
(* An update that writes back the applications as run() loaded them, with *)
(* the one status changed                                                  *)
update_loaded_applications(applications, job_id, new_status) ==
    [k \in DOMAIN applications |->
        IF k = job_id THEN new_status
        ELSE IF InBatch(k) THEN "pending" ELSE applications[k]]

(* update_job_status: the file is loaded, the status of the job with the   *)
(* id is set and the file is saved, without an await in between            *)
update_job_status(applications, job_id, new_status) ==
    [applications EXCEPT ![job_id] = new_status]

UpdateStatus(j) ==
    /\ pc[j] = "status"
    /\ cur = j
    /\ status' = update_job_status(status, j, "processed")
    /\ pc' = [pc EXCEPT ![j] = "done"]
    /\ results' = [results EXCEPT ![j] = "ok"]
    /\ semaphore' = Release
    /\ cur' = 0
    /\ UNCHANGED <<callVars, inputValid, runNo, has_referral_contact, max_concurrent_jobs,
                   pending_jobs, summary, stub, learnings_ok, runState, sub, failed_at, loopVars,
                   artifactVars, fsVars, faults>>

----------------------------------------------------------------------------
(* run(), after gather *)

(* A wait that returns at the first finished task *)
GatherFirst == \E j \in Jobs : InBatch(j) /\ results[j] # "none"

(* gather returns when every task has finished *)
GatherDone == \A j \in Jobs : InBatch(j) => results[j] # "none"

IsException(x) == x \notin {"ok", "none"}

Failed(j) == IsException(results[j])

FailedEntry(j) == [job_id |-> j, error |-> results[j]]

BuildSummary ==
    LET failedSeq == SelectSeq(pending_jobs, Failed)
    IN [processed_count |-> Len(pending_jobs) - Len(failedSeq),
        failed_count |-> Len(failedSeq),
        failed_jobs |-> [i \in 1..Len(failedSeq) |-> FailedEntry(failedSeq[i])]]

Summarise ==
    /\ runState = "gathering"
    /\ cur = 0
    /\ GatherDone
    /\ summary' = BuildSummary
    /\ runState' = "returned"
    /\ UNCHANGED <<callVars, status, inputValid, runNo, has_referral_contact, max_concurrent_jobs,
                   pending_jobs, stub, learnings_ok, semaphore, results, cur, pc, sub,
                   failed_at, loopVars, artifactVars, fsVars, faults>>

----------------------------------------------------------------------------

Next ==
    \/ \E f \in ReferralFiles : StartRun(f)
    \/ \E j \in Jobs : Acquire(j)
    \/ \E j \in Jobs : \E rec \in JobRecords : ValidateInputs(j, rec)
    \/ \E j \in Jobs : CallApi(j)
    \/ \E j \in Jobs : \E r \in Responses(pc[j], attempt[j]) : ApiReturn(j, r)
    \/ \E j \in Jobs : ApiRetry(j)
    \/ \E j \in Jobs : ApiRaise(j)
    \/ \E j \in Jobs : ProcessIntelligence(j)
    \/ \E j \in Jobs : ProcessResume(j)
    \/ \E j \in Jobs : ProcessCoverLetter(j)
    \/ \E j \in Jobs : RenderDocuments(j)
    \/ \E j \in Jobs : \E o1, o2 \in PassOutcomes : Compile(j, o1, o2)
    \/ \E j \in Jobs : Referral(j)
    \/ \E j \in Jobs : Cleanup(j)
    \/ \E j \in Jobs : UpdateStatus(j)
    \/ Summarise

(* One pending job, any behaviour of the collaborators *)
Init == InitWith({1}, {MaxConcurrent}, FreeStubs) /\ arg = NoCall /\ ret = NoCall

Spec == Init /\ [][Next]_vars

(* Every job pending, each with a stub for its collaborators *)
InitBatch == InitWith(Jobs, 1..MaxConcurrent, BatchStubs) /\ arg = NoCall /\ ret = NoCall

SpecBatch == InitBatch /\ [][Next]_vars

(* The batch with its scheduling: while run() awaits gather, the event     *)
(* loop runs a task that is ready (a task admitted by the semaphore, or a  *)
(* task whose generation call or compiler invocation has returned or       *)
(* failed), and run() itself once gather has every result.                 *)
EventLoopStep == runState = "gathering" /\ Next

SpecBatchLive == InitBatch /\ [][Next]_vars /\ WF_vars(EventLoopStep)

----------------------------------------------------------------------------
(* Functions of the program called on their own.  The pipeline is at rest: *)
(* no job is pending and run() is not called.                              *)

AtRest == InitWith({}, {1}, {"ok"}) /\ learnings_ok

(* Strings are sequences of characters *)
Strings(alphabet, lo, hi) == UNION { [1..n -> alphabet] : n \in lo..hi }

(* "a" stands for the characters str.isalnum() holds of, "/" for those it  *)
(* does not hold of and that are none of " ", "-", "_".                    *)
isalnum(c) == c = "a"

(* "".join(c if c.isalnum() or c in (" ", "-", "_") else "_" for c in s) *)
safe(s) == [i \in DOMAIN s |-> IF isalnum(s[i]) \/ s[i] \in {" ", "-", "_"} THEN s[i] ELSE "_"]

(* os.path.join("output", dir_name) *)
path_join(dir, name) == <<dir, "/">> \o name

(* create_output_directory: the path it creates and returns *)
create_output_directory(job_id, job_title, company_name) ==
    path_join("output", safe(company_name) \o <<"_">> \o safe(job_title) \o <<"_">> \o job_id)

(* The record of a job as _validate_job_inputs measures it *)
Measured(rec) ==
    [job_id |-> Text(Len(rec.job_id), 0), job_title |-> Text(Len(rec.job_title), 0),
     company_name |-> Text(Len(rec.company_name), 0),
     job_description |-> Text(description_min, 0)]

(* The jobs of a batch: valid records of one company, whose titles begin   *)
(* alike, with job ids of their own                                        *)
ShortestTitle == [i \in 1..title_min |-> "a"]
ShortestCompany == [i \in 1..company_min |-> "a"]

DirRecords ==
    { rec \in [job_id : Strings({"a", "_"}, 1, 1 + MaxExtra),
               job_title : { ShortestTitle \o x : x \in Strings({"a", "_", "/"}, 0, MaxExtra) },
               company_name : {ShortestCompany}] :
        _validate_job_inputs(Measured(rec)) = "none" }

DirBatches == { b \in [1..2 -> DirRecords] : b[1].job_id # b[2].job_id }

InitDir ==
    /\ AtRest
    /\ arg \in DirBatches
    /\ ret = <<>>

(* process_job of the next job of the batch creates its output directory *)
CreateOutputDirectory ==
    /\ Len(ret) < Len(arg)
    /\ LET rec == arg[Len(ret) + 1]
       IN  ret' = Append(ret, create_output_directory(rec.job_id, rec.job_title,
                                                      rec.company_name))
    /\ UNCHANGED <<pipelineVars, arg>>

NextDir == CreateOutputDirectory

SpecDir == InitDir /\ [][NextDir]_vars

(* compile_latex_to_pdf called on a directory that holds the .tex file and *)
(* may hold the PDF and the log of an earlier compilation                  *)
Directories(base) ==
    LET tex == WriteFile(NoFiles, base \o ".tex", 2)
        pdf == WriteFile(tex, base \o ".pdf", 1)
    IN {tex, pdf, WriteFile(pdf, base \o ".log", 1)}

CompileCalls ==
    { [fs |-> d, base |-> TexBase(s), cls |-> ClsFile(s), o1 |-> o1, o2 |-> o2] :
        s \in {"compile_resume", "compile_cover"},
        d \in Directories("Resume") \cup Directories("CoverLetter"),
        o1 \in PassOutcomes, o2 \in PassOutcomes }

InitCompile ==
    /\ AtRest
    /\ arg \in { c \in CompileCalls : (c.base \o ".tex") \in DOMAIN c.fs }
    /\ ret = NoCall

CompileLatexToPdf ==
    /\ ret = NoCall
    /\ ret' = compile_latex_to_pdf(arg.fs, arg.base, arg.cls, arg.o1, arg.o2, 2)
    /\ UNCHANGED <<pipelineVars, arg>>

NextCompile == CompileLatexToPdf

SpecCompile == InitCompile /\ [][NextCompile]_vars

----------------------------------------------------------------------------
(* The pydantic models of the resume, called on their own *)

(* Field(..., min_length=lo, max_length=hi) of a list field *)
LengthOk(n, lo, hi) == lo <= n /\ n <= hi

(* A resume as the lengths of its lists: the number of education entries,  *)
(* the number of bullet points of each work experience and of each         *)
(* project, and whether every other constraint of the models holds of it.  *)
BulletCounts == {bullet_points_min - 1, bullet_points_min, bullet_points_max + 1}

EntryLists(lo, hi) == UNION { [1..n -> BulletCounts] : n \in (lo - 1)..(hi + 1) }

ResumeInputs ==
    [model : {"TailoredResume"},
     education : (education_min - 1)..(education_min + 1),
     work_experience : EntryLists(work_experience_min, work_experience_max),
     projects : EntryLists(projects_min, projects_max),
     others : BOOLEAN]

(* A validation of work experiences that has no upper bound *)
work_experience_errors_no_max(w) ==
    (IF w.n >= work_experience_min THEN {} ELSE {<<"work_experience">>})
    \cup { <<"work_experience", i, "bullet_points">> :
             i \in { k \in 1..w.n : ~LengthOk(w.bullets[k], bullet_points_min, bullet_points_max) } }

(* The errors of the field work_experience: of the list and of the bullet  *)
(* points of each entry; w is the list as its length and the bullet counts *)
work_experience_errors(w) ==
    (IF LengthOk(w.n, work_experience_min, work_experience_max) THEN {}
     ELSE {<<"work_experience">>})
    \cup { <<"work_experience", i, "bullet_points">> :
             i \in { k \in 1..w.n : ~LengthOk(w.bullets[k], bullet_points_min, bullet_points_max) } }

projects_errors(w) ==
    (IF LengthOk(w.n, projects_min, projects_max) THEN {} ELSE {<<"projects">>})
    \cup { <<"projects", i, "bullet_points">> :
             i \in { k \in 1..w.n : ~LengthOk(w.bullets[k], project_bullet_points_min,
                                                project_bullet_points_max) } }

AsList(l) == [n |-> Len(l), bullets |-> l]

(* TailoredResume of the data: the locations of the errors of the          *)
(* ValidationError; the resume is accepted when there is none              *)
TailoredResume(r) ==
    (IF r.education >= education_min THEN {} ELSE {<<"education">>})
    \cup work_experience_errors(AsList(r.work_experience))
    \cup projects_errors(AsList(r.projects))
    \cup (IF r.others THEN {} ELSE {<<"other">>})

(* Characters *)
Digits == {"0", "1", "2", "3", "4", "5", "6", "7", "8", "9"}

isdigit(c) == c \in Digits

(* What is written before and after the i-th digit of a phone number *)
PhoneStyles == {"plain", "dashes", "parens", "plus"}

Lead(style, i) ==
    CASE style = "parens" /\ i = 1 -> <<"(">>
      [] style = "plus" /\ i = 1 -> <<"+">>
      [] OTHER -> <<>>

Trail(style, i) ==
    CASE style = "dashes" /\ i \in {3, 6} -> <<"-">>
      [] style = "parens" /\ i = 3 -> <<")", " ">>
      [] style = "parens" /\ i = 6 -> <<"-">>
      [] style = "plus" /\ i = 1 -> <<" ">>
      [] OTHER -> <<>>

RECURSIVE Written_(_, _, _)
Written_(d, style, i) ==
    IF i > Len(d) THEN <<>>
    ELSE Lead(style, i) \o <<d[i]>> \o Trail(style, i) \o Written_(d, style, i + 1)

(* Phone numbers of 0 digits and of about 10 digits, written in the styles *)
PhoneInputs ==
    { [model |-> "ContactInfo", phone |-> Written_(d, st, 1)] :
        d \in Strings({"1", "2"}, 0, 0)
               \cup Strings({"1", "2"}, phone_digits - 1, phone_digits_with_country_code + 1),
        st \in PhoneStyles }
    \cup {[model |-> "ContactInfo", phone |-> <<"n", "/", "a">>]}

(* ContactInfo.validate_phone_format: the value of the field, or the error *)
validate_phone_format(v) ==
    LET all == SelectSeq(v, isdigit)
        digits == IF Len(all) = phone_digits_with_country_code /\ all[1] = "1"
                  THEN SubSeq(all, 2, Len(all)) ELSE all
    IN IF v = <<>> THEN [value |-> v]
       ELSE IF Len(digits) # phone_digits
       THEN [error |-> "Phone number must be 10 digits"]
       ELSE [value |-> <<"(">> \o SubSeq(digits, 1, 3) \o <<")", " ">> \o SubSeq(digits, 4, 6)
                       \o <<"-">> \o SubSeq(digits, 7, Len(digits))]

(* Long strings are sequences of runs: n times the character c *)
Run(c, n) == [c |-> c, n |-> n]

RECURSIVE RunsLen(_)
RunsLen(t) == IF t = <<>> THEN 0 ELSE Head(t).n + RunsLen(Tail(t))

(* The characters of the class of illegal_chars *)
IllegalChars == {"<", ">", "[", "]", "{", "}", "\\", "|", "~", "^"}

Legal(run) == run.c \notin IllegalChars

(* re.sub(illegal_chars, '', t) *)
re_sub_illegal(t) == SelectSeq(t, Legal)

(* str.strip of a string of runs *)
RECURSIVE lstrip_runs(_)
lstrip_runs(t) ==
    IF t # <<>> /\ Head(t).c = " " THEN lstrip_runs(Tail(t)) ELSE t

RECURSIVE rstrip_runs(_)
rstrip_runs(t) ==
    IF t # <<>> /\ t[Len(t)].c = " " THEN rstrip_runs(SubSeq(t, 1, Len(t) - 1)) ELSE t

strip_runs(t) == rstrip_runs(lstrip_runs(t))

(* A validation that measures the bullet as it came *)
RECURSIVE validate_raw_bullet_length(_, _)
validate_raw_bullet_length(v, i) ==
    IF i > Len(v) THEN [value |-> <<>>]
    ELSE LET clean_bullet == strip_runs(re_sub_illegal(v[i]))
             rest == validate_raw_bullet_length(v, i + 1)
         IN IF RunsLen(v[i]) > max_bullet_length
            THEN [error |-> "Bullet point exceeds 118 characters", bullet |-> i]
            ELSE IF "error" \in DOMAIN rest THEN rest
            ELSE [value |-> <<clean_bullet>> \o rest.value]

(* validate_bullet_length of WorkExperience and of Project, from the i-th  *)
(* bullet of the list on: the sanitized bullets, or the error of the first *)
(* bullet that is too long                                                 *)
RECURSIVE validate_bullet_length(_, _)
validate_bullet_length(v, i) ==
    IF i > Len(v) THEN [value |-> <<>>]
    ELSE LET clean_bullet == strip_runs(re_sub_illegal(v[i]))
             rest == validate_bullet_length(v, i + 1)
         IN IF RunsLen(clean_bullet) > max_bullet_length
            THEN [error |-> "Bullet point exceeds 118 characters", bullet |-> i]
            ELSE IF "error" \in DOMAIN rest THEN rest
            ELSE [value |-> <<clean_bullet>> \o rest.value]

(* Bullets of few runs, of lengths about the limit *)
BulletRuns ==
    { Run(c, n) : c \in {"a", " ", "<", "|"},
                  n \in {1, 2, max_bullet_length - 1, max_bullet_length} }

Bullets == UNION { [1..n -> BulletRuns] : n \in 1..MaxSegments }

BulletInputs ==
    { [model |-> m, bullet_points |-> <<b>>] : m \in {"WorkExperience", "Project"}, b \in Bullets }
    \cup { [model |-> "WorkExperience", bullet_points |-> <<<<b1>>, <<b2>>>>] :
             b1 \in BulletRuns, b2 \in BulletRuns }

InitModels ==
    /\ AtRest
    /\ arg \in ResumeInputs \cup PhoneInputs \cup BulletInputs
    /\ ret = NoCall

ValidateTailoredResume ==
    /\ arg.model = "TailoredResume"
    /\ ret = NoCall
    /\ ret' = [errors |-> TailoredResume(arg)]
    /\ UNCHANGED <<pipelineVars, arg>>

ValidateContactPhone ==
    /\ arg.model = "ContactInfo"
    /\ ret = NoCall
    /\ ret' = validate_phone_format(arg.phone)
    /\ UNCHANGED <<pipelineVars, arg>>

ValidateBulletPoints ==
    /\ arg.model \in {"WorkExperience", "Project"}
    /\ ret = NoCall
    /\ ret' = validate_bullet_length(arg.bullet_points, 1)
    /\ UNCHANGED <<pipelineVars, arg>>

NextModels == ValidateTailoredResume \/ ValidateContactPhone \/ ValidateBulletPoints

SpecModels == InitModels /\ [][NextModels]_vars

----------------------------------------------------------------------------
(* Properties of the batch scheduler (SpecBatch) *)

InProgress == {j \in Jobs : pc[j] \notin {"idle", "waiting", "done", "failed", "cancelled"}}

(* C1: at every moment the number of jobs between the start and the end of *)
(* process_job is at most max_concurrent_jobs, however many are pending.   *)
C1_ConcurrencyBound == Cardinality(InProgress) <= max_concurrent_jobs

(* The bound bites: every slot is taken, the running tasks are suspended   *)
(* and a pending job is still waiting for a slot.                          *)
C1_Witness ==
    /\ Cardinality(InProgress) = max_concurrent_jobs
    /\ cur = 0
    /\ \E j \in Jobs : pc[j] = "waiting"

(* The outcome a job reaches when it is processed alone: it depends on the *)
(* job's own record and on what the collaborators answer to it.            *)
OwnOutcome(j) ==
    IF ~inputValid[j] THEN "Invalid job inputs"
    ELSE CASE stub[j] = "ok" -> "ok"
           [] stub[j] = "short" ->
                "Cover letter generation failed quality validation after 2 attempts."
           [] OTHER -> "Job Resonance Analysis failed after 2 attempts"

Deliverables(j) ==
    { FinalName("", tailored_resume[j].first_name, j, "_Resume.pdf"),
      FinalName("", tailored_resume[j].first_name, j, "_Cover_Letter.pdf") }
    \cup (IF has_referral_contact
          THEN { FinalName("Referral_", tailored_resume[j].first_name, j, "_Resume.pdf"),
                 FinalName("Referral_", tailored_resume[j].first_name, j,
                           "_Cover_Letter.pdf") }
          ELSE {})

(* C2: a job that fails does not change what happens to the other jobs of  *)
(* the batch: no job is cancelled, every job ends with the outcome it      *)
(* reaches on its own, a successful one with its complete deliverables,    *)
(* and the exception is recorded as the job's result, not raised by run(). *)
C2_FailureIsolation ==
    /\ runState # "raised"
    /\ \A j \in Jobs :
          /\ pc[j] # "cancelled"
          /\ results[j] # "none" => results[j] = OwnOutcome(j)
          /\ results[j] = "ok" =>
                \A n \in Deliverables(j) : n \in DOMAIN files[j] /\ files[j][n] = runNo
          /\ runState = "returned" /\ InBatch(j) => results[j] # "none"

(* A batch has returned in which one job failed in a generation stage and  *)
(* another job succeeded.                                                  *)
C2_Witness ==
    /\ runState = "returned"
    /\ \E j, k \in Jobs : failed_at[j] \in GenStages /\ results[k] = "ok"

FailedJobs == {j \in Jobs : InBatch(j) /\ pc[j] = "failed"}

(* C3: the summary is built only after every pending job has finished; its *)
(* two counts add up to the number of pending jobs; a job is counted as    *)
(* failed exactly when its own process_job raised; and each failure entry  *)
(* carries that job's id and that job's error text.                        *)
C3_SummaryMatchesBatch ==
    (runState = "returned" /\ pending_jobs # <<>>) =>
        /\ \A j \in Jobs : InBatch(j) => pc[j] \in {"done", "failed"}
        /\ summary.processed_count + summary.failed_count = Len(pending_jobs)
        /\ summary.failed_count = Cardinality(FailedJobs)
        /\ Len(summary.failed_jobs) = summary.failed_count
        /\ {summary.failed_jobs[i].job_id : i \in 1..Len(summary.failed_jobs)} = FailedJobs
        /\ \A i \in 1..Len(summary.failed_jobs) :
              summary.failed_jobs[i].error = OwnOutcome(summary.failed_jobs[i].job_id)

(* A summary of a batch with a failed job and a processed one              *)
C3_Witness ==
    /\ runState = "returned"
    /\ summary.processed_count = 1
    /\ summary.failed_count = 1
    /\ summary.failed_jobs[1].error # "Invalid job inputs"

----------------------------------------------------------------------------
(* Properties of one job (Spec) *)

Stages == {StageOrder[i] : i \in 1..Len(StageOrder)}

StructStages == IntelStages \cup {"resume"}

(* The stage a job is in, or was in when it failed *)
Reached(j) == IF pc[j] = "failed" THEN failed_at[j] ELSE pc[j]

Before(s, t) == s \in Stages /\ t \in Stages /\ StageRank(s) < StageRank(t)

Artifact(j, s) ==
    CASE s = "resonance" -> job_resonance[j]
      [] s = "research" -> company_research[j]
      [] s = "resume" -> tailored_resume[j]
      [] s = "arc" -> storytelling_arc[j]
      [] OTHER -> cover_letter_text[j]

AllSchemaInvalid(h) == h # <<>> /\ \A i \in 1..Len(h) : h[i] = "schema"

(* C4: in a structured stage of two attempts (the intelligence stages and  *)
(* resume generation), when every response is schema-invalid the stage     *)
(* makes exactly 2 generation calls and then raises its fatal error: after *)
(* the first such response it goes on to attempt 2, after the second the   *)
(* job has failed; it never makes a third call and never returns a payload.*)
C4_SchemaInvalidExhausts ==
    \A j \in Jobs :
        /\ \A s \in StructStages : calls[j][s] <= 2
        /\ (Reached(j) \in StructStages /\ AllSchemaInvalid(respHist[j]) /\ sub[j] # "got") =>
              /\ Artifact(j, Reached(j)) = NoResp
              /\ IF Len(respHist[j]) = 1
                 THEN pc[j] = Reached(j) /\ attempt[j] = 2 /\ sub[j] \in {"call", "await"}
                 ELSE /\ pc[j] = "failed"
                      /\ Len(respHist[j]) = 2
                      /\ calls[j][Reached(j)] = 2
                      /\ results[j] \in {ExhaustedError(Reached(j)),
                                         "Pydantic validation failed after 2 attempts"}

(* C5: a generation stage returns the payload of the first attempt that    *)
(* passes validation and makes no call after it: the payload it holds      *)
(* passed, came from the attempt whose number is the number of calls the   *)
(* stage made (1 when attempt 1 passed, 2 when attempt 1 failed and        *)
(* attempt 2 passed), and a second attempt is only made after a first that *)
(* did not pass.                                                           *)
C5_FirstPassingAttemptReturned ==
    \A j \in Jobs :
        /\ \A s \in GenStages :
              Artifact(j, s) # NoResp =>
                  /\ IsGood(Artifact(j, s))
                  /\ Artifact(j, s).stage = s
                  /\ Artifact(j, s).att = calls[j][s]
                  /\ Artifact(j, s).att \in 1..2
        /\ (pc[j] \in GenStages /\ respHist[j] # <<>>
              /\ respHist[j][Len(respHist[j])] = "ok") => sub[j] = "got"
        /\ (pc[j] \in GenStages /\ attempt[j] >= 2) => respHist[j][1] # "ok"

(* Resume generation has returned the payload of attempt 2 (a failure of   *)
(* the transport on attempt 1 would have ended the job)                    *)
C5_Witness ==
    \E j \in Jobs :
        /\ tailored_resume[j].att = 2
        /\ calls[j]["resume"] = 2
        /\ pc[j] = "arc"

Written(j, name) ==
    \/ name \in DOMAIN files[j] /\ files[j][name] = runNo
    \/ name \in DOMAIN debug[j] /\ debug[j][name] = runNo

(* What a job has when it is in stage s: the results of the stages before  *)
(* s, and nothing of the generation stages after it.                       *)
Completed(j) ==
    LET s == Reached(j) IN
    s \in Stages =>
        /\ \A g \in GenStages : IF Before(g, s) THEN IsGood(Artifact(j, g))
                                ELSE Artifact(j, g) = NoResp
        /\ Before("render", s) => Written(j, "Resume.tex") /\ Written(j, "CoverLetter.tex")
        /\ Before("compile_resume", s) =>
              FinalPdf("compile_resume", tailored_resume[j].first_name, j) \in DOMAIN files[j]
        /\ Before("compile_cover", s) =>
              FinalPdf("compile_cover", tailored_resume[j].first_name, j) \in DOMAIN files[j]
        /\ (Before("compile_ref_cover", s) /\ has_referral_contact) =>
              /\ FinalPdf("compile_ref_resume", tailored_resume[j].first_name, j)
                    \in DOMAIN files[j]
              /\ FinalPdf("compile_ref_cover", tailored_resume[j].first_name, j)
                    \in DOMAIN files[j]
        /\ pc[j] = "done" => status[j] = "processed"
        /\ status[j] = "processed" => pc[j] \in {"done", "idle"}

StepAllowed(j) ==
    \/ pc'[j] = "failed"
    \/ runNo' # runNo
    \/ pc[j] = "waiting" /\ pc'[j] = "validate"
    \/ /\ pc[j] \in Stages
       /\ pc'[j] \in Stages
       /\ IF pc[j] = "referral" /\ ~has_referral_contact
          THEN pc'[j] = "cleanup"
          ELSE StageRank(pc'[j]) = StageRank(pc[j]) + 1

C8_ValidatedBeforeUse ==
    \A j \in Jobs :
        /\ \A g \in GenStages :
              /\ Artifact(j, g) # NoResp => IsGood(Artifact(j, g)) /\ Artifact(j, g).stage = g
              /\ Before(g, Reached(j)) => Artifact(j, g) # NoResp
        /\ Before("resume", Reached(j)) =>
              tailored_resume[j].shape = "object" /\ tailored_resume[j].schema
        /\ (pc[j] = "failed" /\ failed_at[j] \in GenStages) =>
              /\ Artifact(j, failed_at[j]) = NoResp
              /\ ~Written(j, "Resume.tex")

(* A job is writing its cover letter with a resonance analysis and a       *)
(* storytelling arc that were both accepted on the second attempt          *)
C8_Witness ==
    \E j \in Jobs :
        /\ pc[j] = "cover"
        /\ job_resonance[j].att = 2
        /\ storytelling_arc[j].att = 2

(* A step of the run that is under way *)
NoBackward(j) ==
    /\ (pc[j] \in Stages /\ pc'[j] \in Stages) => StageRank(pc'[j]) >= StageRank(pc[j])
    /\ pc[j] \in Stages => pc'[j] \in Stages \cup {"failed"}

FailedIsTerminal(j) ==
    pc[j] = "failed" =>
        /\ pc'[j] = "failed"
        /\ calls'[j] = calls[j]
        /\ files'[j] = files[j]
        /\ debug'[j] = debug[j]
        /\ status'[j] = status[j]
        /\ results'[j] = results[j]

(* A job that waits for its slot holds nothing of an earlier run *)
StartsAfresh(j) ==
    pc[j] = "waiting" =>
        /\ \A g \in GenStages : Artifact(j, g) = NoResp /\ calls[j][g] = 0
        /\ failed_at[j] = "none"

(* The deliverables of a finished job were all made in the run that        *)
(* finished it                                                             *)
NothingReused(j) ==
    pc[j] = "done" =>
        \A n \in Deliverables(j) : n \in DOMAIN files[j] /\ files[j][n] = runNo

(* C7: the stage sequence of a job never moves backward and Failed is      *)
(* terminal: after a fatal error nothing more is done for the job in that  *)
(* run (no generation call, render, compile, cleanup or status update);    *)
(* and a later run starts the job again from input validation without      *)
(* reusing artifacts of the failed run.                                    *)
C7_NoResumeFromFailure ==
    /\ [][\A j \in Jobs : runNo' = runNo => NoBackward(j) /\ FailedIsTerminal(j)]_vars
    /\ [](\A j \in Jobs : StartsAfresh(j) /\ NothingReused(j))

(* C9: after a job has completed successfully the regular files at the top *)
(* level of its output directory are exactly the canonical deliverables, 2 *)
(* without a referral contact and 4 with one, and everything else is under *)
(* debug/, also when an earlier run processed the job into the directory.  *)
C9_TopLevelIsDeliverables ==
    \A j \in Jobs :
        pc[j] = "done" =>
            /\ DOMAIN files[j] = Deliverables(j)
            /\ Cardinality(DOMAIN files[j]) = IF has_referral_contact THEN 4 ELSE 2

(* The names of the intermediate files a successful job has written: the   *)
(* raw response and the JSON of every accepted attempt, and the markup.    *)
Intermediates(j) ==
    UNION { { AttemptFile(output_filename_prefix(s) \o "_Raw_Attempt_", Artifact(j, s).att,
                          ".txt"),
              output_filename_prefix(s) \o ".json" } : s \in IntelStages }
    \cup { AttemptFile("Resume_Response_Attempt_", tailored_resume[j].att, ".txt"),
           AttemptFile("Resume_JSON_Attempt_", tailored_resume[j].att, ".json"),
           "Resume.json",
           AttemptFile("CoverLetter_Raw_Attempt_", cover_letter_text[j].att, ".txt"),
           "CoverLetter.txt", "Resume.tex", "CoverLetter.tex" }
    \cup (IF has_referral_contact THEN {"Referral_Resume.tex", "Referral_CoverLetter.tex"}
          ELSE {})

Relocated(j) ==
    /\ \A n \in DOMAIN files[j] :
          \/ n \in DOMAIN files'[j] /\ files'[j][n] = files[j][n]
          \/ n \in DOMAIN debug'[j] /\ debug'[j][n] = files[j][n]
    /\ \A n \in DOMAIN debug[j] : n \in DOMAIN debug'[j]
    /\ \A n \in Deliverables(j) : n \in DOMAIN files'[j] /\ files'[j][n] = files[j][n]

(* C10: cleanup relocates and never deletes: every file of the output      *)
(* directory is afterwards at the top level or under debug/ with its       *)
(* content, the final PDFs stay at the top level untouched, and every raw  *)
(* response, intermediate JSON file and markup source the successful job   *)
(* wrote is under debug/.                                                  *)
C10_CleanupRelocates ==
    /\ [][\A j \in Jobs : (pc[j] = "cleanup" /\ pc'[j] = "status") => Relocated(j)]_vars
    /\ [](\A j \in Jobs :
            pc[j] \in {"status", "done"} =>
                \A n \in Intermediates(j) : n \in DOMAIN debug[j] /\ debug[j][n] = runNo)

(* A job is done whose rejected first resume is under debug/ with the rest *)
C10_Witness ==
    \E j \in Jobs :
        /\ pc[j] = "done"
        /\ "Resume_INVALID_Attempt_1.json" \in DOMAIN debug[j]
        /\ debug[j]["Resume_INVALID_Attempt_1.json"] = runNo
        /\ "Resume.tex" \in DOMAIN debug[j]

----------------------------------------------------------------------------
(* Properties of the construction and of the inputs *)

(* The checks of the referral contact, as the file satisfies them or not   *)
ContactChecksPass(f) ==
    /\ f.content = "object"
    /\ f.email.kind = "string" /\ f.email.at
    /\ f.phone.kind = "string" /\ f.phone.core >= min_phone

ReferralStages == {"compile_ref_resume", "compile_ref_cover"}

(* C11: the referral contact is loaded once, at construction: a file that  *)
(* is missing, empty, malformed, without email or phone, with an email     *)
(* without "@" or a phone shorter than 7 characters leaves the referral    *)
(* branch disabled and no exception leaves the constructor; the branch is  *)
(* enabled only when all checks pass; the flag does not change during the  *)
(* run, and no job of a run with a disabled branch enters it.              *)
C11_ReferralLoadedOnce ==
    /\ [][runNo' # runNo =>
            /\ runState' # "raised"
            /\ has_referral_contact' =>
                  \A f \in ReferralFiles : StartRun(f) => ContactChecksPass(f)]_vars
    /\ [][runNo' = runNo => has_referral_contact' = has_referral_contact]_vars
    /\ [](\A j \in Jobs : pc[j] \in ReferralStages => has_referral_contact)

(* A job of a run whose referral branch is disabled has passed the         *)
(* referral step without entering the branch                               *)
C11_Witness ==
    \E j \in Jobs :
        /\ ~has_referral_contact
        /\ pc[j] = "cleanup"
        /\ "Referral_Resume.tex" \notin DOMAIN files[j]

(* A record that violates a constraint of the inputs: the job id is empty  *)
(* or not a string, or the title, the company or the description is not a  *)
(* string of a length inside its range                                     *)
OutsideRange(x, lo, hi) == x.kind # "string" \/ x.core < lo \/ x.core + x.pad > hi

ViolatesInputConstraints(rec) ==
    \/ rec.job_id.kind # "string" \/ rec.job_id.core = 0
    \/ OutsideRange(rec.job_title, title_min, title_max)
    \/ OutsideRange(rec.company_name, company_min, company_max)
    \/ OutsideRange(rec.job_description, description_min, description_max)

(* C12: a job whose record violates the input constraints fails at once    *)
(* with a fatal input error: it is not tried again in the run, no          *)
(* generation call is made for it and no output directory is created for   *)
(* it.                                                                     *)
C12_InvalidInputsFailAtOnce ==
    /\ [][\A j \in Jobs :
            (pc[j] = "validate" /\ pc'[j] # "validate") =>
                \/ /\ pc'[j] = "failed"
                   /\ results'[j] = "Invalid job inputs"
                   /\ output_dir'[j] = output_dir[j]
                \/ \A rec \in JobRecords :
                      ViolatesInputConstraints(rec) => ~ValidateInputs(j, rec)]_vars
    /\ [][\A j \in Jobs :
            (failed_at[j] = "validate" /\ runNo' = runNo) => pc'[j] = "failed"]_vars
    /\ [](\A j \in Jobs :
            failed_at[j] = "validate" =>
                /\ \A s \in GenStages : calls[j][s] = 0
                /\ ~output_dir[j]
                /\ files[j] = NoFiles
                /\ status[j] = "pending")

(* A batch has returned in which a job failed on its inputs and another    *)
(* job was processed                                                       *)
C12_Witness ==
    /\ runState = "returned"
    /\ \E j, k \in Jobs : failed_at[j] = "validate" /\ ~inputValid[j] /\ pc[k] = "done"

(* C13: no two jobs of a batch are given the same output directory:       *)
(* create_output_directory maps the valid records of a batch, which have   *)
(* job ids of their own, to paths that differ from each other.             *)
C13_DistinctDirectories ==
    \A i, k \in DOMAIN ret : i # k => ret[i] # ret[k]

----------------------------------------------------------------------------
(* The incident log *)

(* The step in which job j takes up the response of its call *)
TakesUp(j) == cur = j /\ sub[j] = "got" /\ sub'[j] # "got"

SchemaInvalid(j) == pc[j] \in StructStages /\ Outcome(resp[j]) = "schema"

Entries(log, e) == IF e \in DOMAIN log THEN log[e] ELSE 0

(* log2 is log1 and one more entry e *)
OneMore(log1, log2, e) ==
    /\ DOMAIN log2 = DOMAIN log1 \cup {e}
    /\ \A x \in DOMAIN log2 : log2[x] = Entries(log1, x) + (IF x = e THEN 1 ELSE 0)

(* C14: every schema-validation failure of a generation stage, on the last *)
(* attempt as on the others, appends one incident entry, of its stage, job *)
(* and attempt, to the incident log before the stage retries or fails;     *)
(* nothing else adds an entry.                                             *)
C14_EveryFailureLogged ==
    [][\A j \in Jobs :
          TakesUp(j) =>
              IF SchemaInvalid(j)
              THEN OneMore(learnings, learnings', Incident(step_name(pc[j]), j, attempt[j]))
              ELSE learnings' = learnings]_vars

(* The number of schema-validation failures taken up in a step: a step is *)
(* of one job                                                              *)
FailuresTakenUp == Cardinality({ j \in Jobs : TakesUp(j) /\ SchemaInvalid(j) })

(* C15: with the pipelines of a batch interleaved, no append to the        *)
(* incident log is lost and none overwrites another: every step leaves the *)
(* entries the log held in it, and the log grows by one entry for each     *)
(* schema-validation failure taken up.                                     *)
C15_AppendsNeverLost ==
    [][/\ \A e \in DOMAIN learnings : Entries(learnings', e) >= learnings[e]
       /\ BagCardinality(learnings') = BagCardinality(learnings) + FailuresTakenUp]_vars

----------------------------------------------------------------------------
(* Compilation *)

Returned == ret # NoCall

NoTimeout == ~arg.o1.timeout /\ ~arg.o2.timeout

PdfExists == (arg.base \o ".pdf") \in DOMAIN ret.fs

(* C16: when no pass runs into the timeout, compile_latex_to_pdf succeeds  *)
(* exactly when the expected PDF exists after the passes, whatever the     *)
(* exit statuses: it succeeds with the PDF and non-zero exits, it fails    *)
(* without the PDF and zero exits.                                         *)
C16_SuccessIffPdfExists ==
    (Returned /\ NoTimeout) => (ret.err = "none" <=> PdfExists)

(* Both passes exit with an error and the PDF of an earlier compilation    *)
(* exists: success                                                         *)
C16_Witness ==
    /\ Returned /\ NoTimeout
    /\ arg.o1.rc # 0 /\ arg.o2.rc # 0
    /\ PdfExists
    /\ ret.err = "none"

(* Whether the second pass of the compilation job j is about to make runs, *)
(* given the outcome of the first                                          *)
SecondPassRuns(j, o1) ==
    /\ ~o1.timeout
    /\ o1.rc = 0 \/ o1.pdf \/ (TexBase(pc[j]) \o ".pdf") \in DOMAIN files[j]

TimesOut(j, o1, o2) == o1.timeout \/ (SecondPassRuns(j, o1) /\ o2.timeout)

(* The PDFs of the compile stage t of job j *)
PdfsOf(j, t) == {TexBase(t) \o ".pdf", FinalPdf(t, tailored_resume[j].first_name, j)}

(* C17: a failed or timed out compilation is not tried again: a job leaves *)
(* a compile stage in one step, for the next stage or as failed, and       *)
(* enters it from the stage before it only; a timeout in a pass fails the  *)
(* job with the timeout error; and a job that failed in a compile stage    *)
(* stays failed, has no PDF of a later document from this run, nothing     *)
(* moved under debug/ in this run and the status pending.                  *)
C17_CompileFailureIsFatal ==
    /\ [][\A j \in Jobs :
            /\ (pc[j] \in CompileStages /\ cur = j /\ cur' # j) => pc'[j] = "failed"
            /\ (pc[j] \in CompileStages /\ pc'[j] # pc[j] /\ runNo' = runNo) =>
                  /\ pc'[j] \in {AfterCompile(pc[j]), "failed"}
                  /\ \/ /\ pc'[j] = "failed"
                        /\ results'[j] = "LaTeX compilation timed out after 120 seconds."
                     \/ \A o1, o2 \in PassOutcomes :
                            TimesOut(j, o1, o2) => ~Compile(j, o1, o2)
            /\ (pc'[j] \in CompileStages /\ pc'[j] # pc[j]) =>
                  \/ pc[j] \in CompileStages /\ pc'[j] = AfterCompile(pc[j])
                  \/ pc[j] = "render" /\ pc'[j] = "compile_resume"
                  \/ pc[j] = "referral" /\ pc'[j] = "compile_ref_resume"]_vars
    /\ [](\A j \in Jobs :
            failed_at[j] \in CompileStages =>
                /\ pc[j] = "failed"
                /\ status[j] = "pending"
                /\ \A n \in DOMAIN debug[j] : debug[j][n] # runNo
                /\ \A t \in CompileStages :
                      Before(failed_at[j], t) => \A n \in PdfsOf(j, t) : ~Written(j, n))

(* The compilation of the cover letter timed out and the job failed in it, *)
(* after its resume was compiled                                           *)
C17_Witness ==
    \E j \in Jobs :
        /\ failed_at[j] = "compile_cover"
        /\ results[j] = "LaTeX compilation timed out after 120 seconds."
        /\ Written(j, FinalPdf("compile_resume", tailored_resume[j].first_name, j))

----------------------------------------------------------------------------
(* Cover-letter generation *)

(* The text of a response without its surrounding whitespace has 200       *)
(* characters or more                                                      *)
LongEnough(r) == r.shape = "text" /\ r.core >= 200

(* C18: cover-letter generation makes at most 2 generation calls; an       *)
(* attempt is accepted exactly when its stripped text has 200 characters   *)
(* or more; the stripped text of the first accepted attempt is the cover   *)
(* letter, which the later stages leave as it is; a first attempt that is  *)
(* too short is followed by a second, and a second that is too short fails *)
(* the job.                                                                *)
C18_CoverLetterLoop ==
    /\ [][\A j \in Jobs :
            /\ (pc[j] = "cover" /\ TakesUp(j)) =>
                  IF LongEnough(resp[j])
                  THEN /\ pc'[j] = "render"
                       /\ cover_letter_text'[j] = [resp[j] EXCEPT !.pad = 0]
                       /\ \A i \in 1..(Len(respHist[j]) - 1) : respHist[j][i] # "ok"
                  ELSE /\ cover_letter_text'[j] = NoResp
                       /\ IF attempt[j] < 2
                          THEN pc'[j] = "cover" /\ sub'[j] = "call"
                          ELSE /\ pc'[j] = "failed"
                               /\ results'[j] = "Cover letter generation failed quality validation after 2 attempts."
            /\ (Before("cover", pc[j]) /\ runNo' = runNo) =>
                  cover_letter_text'[j] = cover_letter_text[j]]_vars
    /\ [](\A j \in Jobs :
            /\ calls[j]["cover"] <= 2
            /\ Before("cover", pc[j]) => LongEnough(cover_letter_text[j]))

(* The first cover letter was too short, the second was accepted *)
C18_Witness ==
    \E j \in Jobs :
        /\ pc[j] = "render"
        /\ calls[j]["cover"] = 2
        /\ respHist[j] = <<"short", "ok">>
        /\ cover_letter_text[j].att = 2

----------------------------------------------------------------------------
(* The models of the resume *)

Validated(m) == arg # NoCall /\ arg.model = m /\ ret # NoCall

EachHas(l, n) == \A i \in 1..Len(l) : l[i] = n

(* C19: a resume that satisfies every other constraint is accepted exactly *)
(* when it has one education entry or more, 3 work experiences of 4 bullet *)
(* points each and 3 projects of 4 bullet points each; with 2 or with 4    *)
(* work experiences it is rejected.                                        *)
C19_ResumeListSizes ==
    Validated("TailoredResume") =>
        /\ arg.others =>
              (ret.errors = {} <=> /\ arg.education >= 1
                                   /\ Len(arg.work_experience) = 3
                                   /\ EachHas(arg.work_experience, 4)
                                   /\ Len(arg.projects) = 3
                                   /\ EachHas(arg.projects, 4))
        /\ Len(arg.work_experience) \in {2, 4} => ret.errors # {}

(* A resume whose only defect is a fourth work experience was rejected *)
C19_Witness ==
    /\ Validated("TailoredResume")
    /\ arg.others /\ arg.education >= 1
    /\ Len(arg.work_experience) = 4 /\ EachHas(arg.work_experience, 4)
    /\ Len(arg.projects) = 3 /\ EachHas(arg.projects, 4)
    /\ ret.errors = {<<"work_experience">>}

(* The digits of a phone number as the claim counts them *)
DigitsOf(v) == SelectSeq(v, isdigit)

TenDigits(v) ==
    LET d == DigitsOf(v)
    IN IF Len(d) = 10 THEN d
       ELSE IF Len(d) = 11 /\ d[1] = "1" THEN Tail(d)
       ELSE <<>>

Formatted(d) ==
    <<"(", d[1], d[2], d[3], ")", " ", d[4], d[5], d[6], "-", d[7], d[8], d[9], d[10]>>

(* C20: a phone string with 10 digits, or with 11 digits the first of which *)
(* is 1, among separators that are not digits, validates to (XXX) XXX-XXXX  *)
(* of those 10 digits in their order; a string with any other number of    *)
(* digits is rejected.                                                     *)
C20_PhoneNormalised ==
    Validated("ContactInfo") =>
        IF TenDigits(arg.phone) # <<>>
        THEN ret = [value |-> Formatted(TenDigits(arg.phone))]
        ELSE "error" \in DOMAIN ret

(* What is left of a bullet when the characters <>[]{}\|~^ are taken out   *)
(* of it and the result is trimmed: its length is that of the runs of      *)
(* other characters from the first to the last that is not of spaces       *)
Kept(b) == { i \in 1..Len(b) : b[i].c \notin {"<", ">", "[", "]", "{", "}", "\\", "|", "~", "^"} }

Inner(b) ==
    { i \in Kept(b) : /\ \E k \in Kept(b) : k <= i /\ b[k].c # " "
                      /\ \E k \in Kept(b) : k >= i /\ b[k].c # " " }

RECURSIVE SumOver(_, _)
SumOver(b, I) ==
    IF I = {} THEN 0 ELSE LET i == CHOOSE x \in I : TRUE IN b[i].n + SumOver(b, I \ {i})

SanitizedLength(b) == SumOver(b, Inner(b))

ValidatedBullets == arg # NoCall /\ arg.model \in {"WorkExperience", "Project"} /\ ret # NoCall

(* C21: a validated bullet of a work experience or of a project has none   *)
(* of the characters <>[]{}\|~^, and the limit of 118 characters is that   *)
(* of the sanitized bullet: the bullets are rejected exactly when one of   *)
(* them is longer than 118 characters once sanitized and trimmed, whatever *)
(* its length as it came.                                                  *)
C21_BulletSanitizedThenMeasured ==
    ValidatedBullets =>
        /\ "error" \in DOMAIN ret <=>
              \E i \in 1..Len(arg.bullet_points) : SanitizedLength(arg.bullet_points[i]) > 118
        /\ "value" \in DOMAIN ret =>
              /\ Len(ret.value) = Len(arg.bullet_points)
              /\ \A i \in 1..Len(ret.value) :
                    /\ \A k \in 1..Len(ret.value[i]) :
                          ret.value[i][k].c \in {"a", " "}
                    /\ RunsLen(ret.value[i]) = SanitizedLength(arg.bullet_points[i])

(* A bullet longer than 118 characters as it came, of 118 once sanitized,  *)
(* was accepted                                                            *)
C21_Witness ==
    /\ ValidatedBullets
    /\ Len(arg.bullet_points) = 1
    /\ RunsLen(arg.bullet_points[1]) > 118
    /\ ret = [value |-> <<<<Run("a", 118)>>>>]

----------------------------------------------------------------------------
(* The referral documents *)

ReferralSources == {"Referral_Resume.tex", "Referral_CoverLetter.tex"}

ReferralPdfs(j) ==
    { FinalPdf(t, n, j) : t \in {"compile_ref_resume", "compile_ref_cover"}, n \in Names }

(* Every name with the prefix Referral_ that the pipeline writes for job j *)
ReferralNames(j) ==
    ReferralSources \cup ReferralPdfs(j) \cup {"Referral_Resume.pdf", "Referral_CoverLetter.pdf"}

(* Document d is document p with the phone and the email of the referral   *)
(* contact in its contact block, and nothing else changed                  *)
IsReferralOf(d, p) ==
    /\ d.template = p.template
    /\ d.body = p.body
    /\ d.contact_info.first_name = p.contact_info.first_name
    /\ d.contact_info.last_name = p.contact_info.last_name
    /\ d.contact_info.phone = "self.referral_phone"
    /\ d.contact_info.email = "self.referral_email"
    /\ p.contact_info.phone = "phone of the resume"
    /\ p.contact_info.email = "email of the resume"

(* C22: with the referral branch enabled, a successful job has produced,   *)
(* besides its two documents, two artifacts named Referral_..., rendered   *)
(* from the same resume and the same cover-letter text, with the first and *)
(* last name of the contact block as they were and its phone and email     *)
(* replaced by those of the referral contact; with the branch disabled no  *)
(* file named Referral_... is rendered or compiled in the run.             *)
C22_ReferralDocuments ==
    \A j \in Jobs :
        /\ (has_referral_contact /\ pc[j] = "done") =>
              /\ { n \in ReferralNames(j) : n \in DOMAIN files[j] } =
                    { FinalPdf(t, tailored_resume[j].first_name, j) :
                        t \in {"compile_ref_resume", "compile_ref_cover"} }
              /\ \A n \in ReferralPdfs(j) : n \in DOMAIN files[j] => files[j][n] = runNo
              /\ IsReferralOf(latex[j]["Referral_Resume.tex"], latex[j]["Resume.tex"])
              /\ IsReferralOf(latex[j]["Referral_CoverLetter.tex"], latex[j]["CoverLetter.tex"])
              /\ latex[j]["Resume.tex"].body = tailored_resume[j]
              /\ latex[j]["CoverLetter.tex"].body = cover_letter_text[j]
        /\ ~has_referral_contact => \A n \in ReferralNames(j) : ~Written(j, n)

----------------------------------------------------------------------------
(* Failures of the generation call and of the extraction *)

(* The step in which call_poe_api of job j raises, its tries used up *)
TransportFailure(j) ==
    /\ pc[j] \in GenStages
    /\ sub[j] = "await"
    /\ Len(respHist'[j]) = Len(respHist[j]) + 1
    /\ respHist'[j][Len(respHist'[j])] = "transport"

(* C23: when call_poe_api fails at the transport after its own tries, the  *)
(* stage of the call fails the job at once: no generation stage makes      *)
(* another attempt after it.                                               *)
C23_TransportFailureIsFatal ==
    [][\A j \in Jobs :
          TransportFailure(j) => /\ pc'[j] = "failed"
                                 /\ failed_at'[j] = pc[j]
                                 /\ attempt'[j] = attempt[j]]_vars

StructuredStages == IntelStages \cup {"resume"}

AttemptLimit(s) ==
    CASE s \in IntelStages -> max_retries
      [] s = "resume" -> max_validation_retries
      [] OTHER -> max_cl_retries

(* The step in which the stage of job j deals with the response it has got *)
Processes(j) == sub[j] = "got" /\ sub'[j] # "got"

(* The stage of job j goes round again, with the prompt p *)
RetriesWith(j, p) ==
    /\ pc'[j] = pc[j]
    /\ sub'[j] = "call"
    /\ attempt'[j] = attempt[j] + 1
    /\ current_prompt'[j] = p

(* C24: in every structured stage a response without an extractable JSON   *)
(* object (text that is not JSON, or JSON that is not an object) is        *)
(* retryable: while attempts remain, the stage makes the next attempt with *)
(* the malformed-output feedback and does not fail the job.                *)
C24_MalformedOutputIsRetried ==
    [][\A j \in Jobs :
          /\ pc[j] \in StructuredStages
          /\ Processes(j)
          /\ Outcome(resp[j]) \in {"malformed", "nonobject"}
          /\ attempt[j] < AttemptLimit(pc[j])
          => \/ RetriesWith(j, JsonFeedback(<<"base">>))
             \/ RetriesWith(j, <<"JSON PARSING ERROR">> \o <<"base">>)]_vars

(* C25: in the generic stage runner, whenever an attempt fails (malformed  *)
(* output, schema, quality) and a retry follows, the prompt of the retry   *)
(* has the feedback before the base prompt.                                *)
C25_FeedbackBeforeBasePrompt ==
    [][\A j \in Jobs :
          /\ pc[j] \in IntelStages
          /\ Processes(j)
          /\ Outcome(resp[j]) \in {"malformed", "schema", "quality"}
          /\ attempt'[j] = attempt[j] + 1
          => /\ Len(current_prompt'[j]) = 2
             /\ current_prompt'[j][1] # "base"
             /\ current_prompt'[j][2] = "base"]_vars

(* Job j is at attempt 2 or later of the resume loop, the attempt before  *)
(* having failed the schema                                                *)
RetriesAfterSchemaFailure(j) ==
    /\ pc[j] = "resume"
    /\ sub[j] \in {"call", "await"}
    /\ attempt[j] > 1
    /\ respHist[j] # <<>>
    /\ respHist[j][Len(respHist[j])] = "schema"

(* C26: in resume generation, after a schema failure on an attempt that is *)
(* not the last, the prompt of the next attempt is the error feedback      *)
(* followed by the whole original resume prompt.                           *)
C26_ResumeFeedbackPrepended ==
    \A j \in Jobs :
        RetriesAfterSchemaFailure(j)
        => current_prompt[j] = <<"VALIDATION ERRORS TO FIX", "base">>

C26_Witness ==
    \E j \in Jobs : RetriesAfterSchemaFailure(j) /\ sub[j] = "await"

----------------------------------------------------------------------------
(* The generic stage runner, called on its own with a limit of attempts *)

(* What an attempt can come to: a good response, text that is not JSON,    *)
(* JSON that is not an object, an object failing the schema, one failing   *)
(* the quality checks, or call_poe_api raising.                            *)
AttemptOutcomes == {"ok", "malformed", "nonobject", "schema", "quality", "transport"}

(* The attempts the loop makes from attempt a on, each with the prompt it  *)
(* sends and what came of it.  outs[a] is what attempt a comes to.         *)
RECURSIVE Attempts(_, _, _, _, _)
Attempts(limit, outs, log_ok, a, prompt) ==
    LET out == outs[a]
        logRaises == out = "schema" /\ ~log_ok
        this == [attempt |-> a, prompt |-> prompt, out |-> out]
    IN IF Decide(out = "ok", a, limit) = "retry"
       THEN <<this>> \o Attempts(limit, outs, log_ok, a + 1,
                                 IF logRaises THEN prompt ELSE RetryPrompt(out, prompt))
       ELSE <<this>>

_call_intelligence_step_with_retry(limit, outs, log_ok) ==
    LET made == Attempts(limit, outs, log_ok, 1, <<"base">>)
    IN [attempts |-> made,
        result |-> IF made[Len(made)].out = "ok" THEN "returned" ELSE "raised"]

RunnerCalls ==
    UNION { [max_retries : {n}, outs : [1..n -> AttemptOutcomes]] : n \in 1..MaxAttempts }

InitRunner ==
    /\ AtRest
    /\ arg \in RunnerCalls
    /\ ret = NoCall

CallIntelligenceStepWithRetry ==
    /\ ret = NoCall
    /\ ret' = _call_intelligence_step_with_retry(arg.max_retries, arg.outs, learnings_ok)
    /\ UNCHANGED <<pipelineVars, arg>>

NextRunner == CallIntelligenceStepWithRetry

SpecRunner == InitRunner /\ [][NextRunner]_vars

(* The feedback parts of a prompt *)
FeedbackIn(prompt) == { prompt[i] : i \in DOMAIN prompt } \ {"base"}

(* The feedback message which a failed attempt calls for *)
FeedbackFor(out) ==
    CASE out = "malformed" -> {"JSON PARSING ERROR"}
      [] out = "schema" -> {"VALIDATION ERRORS TO FIX"}
      [] out = "quality" -> {"OUTPUT QUALITY ERROR"}
      [] OTHER -> {}

(* C27: whatever the limit of attempts, the prompt of every attempt is the *)
(* base prompt plus the feedback of the most recent failed attempt only:   *)
(* the prompt never has feedback of two attempts, nor of an attempt before *)
(* the last one.                                                           *)
C27_OnlyLatestFeedback ==
    ret # NoCall =>
        \A k \in DOMAIN ret.attempts :
            LET p == ret.attempts[k].prompt
            IN /\ Cardinality({ i \in DOMAIN p : p[i] = "base" }) = 1
               /\ Len(p) <= 2
               /\ FeedbackIn(p) = IF k = 1 THEN {}
                                  ELSE FeedbackFor(ret.attempts[k - 1].out)

----------------------------------------------------------------------------
(* Saving the raw response of an attempt, on its own *)

RawCalls ==
    UNION { [stage : {s}, attempt : {a}, response : Responses(s, a)] :
              s \in GenStages, a \in 1..MaxAttempts }

InitRaw ==
    /\ AtRest
    /\ arg \in RawCalls
    /\ ret = NoCall

SaveRawResponse ==
    /\ ret = NoCall
    /\ ret' = save_raw_response(arg.stage, arg.attempt, arg.response)
    /\ UNCHANGED <<pipelineVars, arg>>

NextRaw == SaveRawResponse

SpecRaw == InitRaw /\ [][NextRaw]_vars

(* C28: for every attempt whose call returned a response, that response is *)
(* written to the raw file numbered with the attempt, before anything is   *)
(* extracted from it or validated, whatever comes of the attempt; raw      *)
(* files of different attempts or stages have different names, so that no  *)
(* later attempt or stage overwrites one.                                  *)
C28_RawResponseSaved ==
    ret # NoCall =>
        /\ ret.content = arg.response
        /\ \A c \in RawCalls :
              save_raw_response(c.stage, c.attempt, c.response).name = ret.name
              => c.stage = arg.stage /\ c.attempt = arg.attempt

----------------------------------------------------------------------------
(* Suspension *)

(* Job k waits for the response of a generation call *)
AwaitsResponse(k) == pc[k] \in GenStages /\ sub[k] = "await"

(* The response which job k waits for can be delivered to it *)
CanTakeResponse(k) ==
    ENABLED (\/ \E r \in Responses(pc[k], attempt[k]) : ApiReturn(k, r)
             \/ ApiRetry(k)
             \/ ApiRaise(k))

(* C29: a job suspends, letting the other jobs of the batch run, at its    *)
(* generation calls and at its compilations: while a job is at a           *)
(* compilation, another job that is in progress can go on.                 *)
C29_OthersRunDuringCompilation ==
    \A j, k \in Jobs :
        j # k /\ pc[j] \in CompileStages /\ AwaitsResponse(k) => CanTakeResponse(k)

----------------------------------------------------------------------------
(* The structured retry loops and the incident log *)

(* The attempts of the resume loop of process_job from attempt a on *)
RECURSIVE ResumeAttempts(_, _, _, _)
ResumeAttempts(outs, log_ok, a, prompt) ==
    LET out == outs[a]
        this == [attempt |-> a, prompt |-> prompt, out |-> out]
    IN IF ResumeDecision(out, a, out = "schema" /\ ~log_ok) = "retry"
       THEN <<this>> \o ResumeAttempts(outs, log_ok, a + 1, RetryPrompt(out, prompt))
       ELSE <<this>>

resume_generation(outs, log_ok) ==
    LET made == ResumeAttempts(outs, log_ok, 1, <<"base">>)
    IN [attempts |-> made,
        result |-> IF made[Len(made)].out = "ok" THEN "returned" ELSE "raised"]

ResumeCalls == [outs : [1..max_validation_retries -> AttemptOutcomes]]

(* learnings.yaml is absent or loads as a log, or it does not load *)
InitLog ==
    /\ InitWith({}, {1}, {"ok"})
    /\ arg \in RunnerCalls \cup ResumeCalls
    /\ ret = NoCall

IntelligenceStep ==
    /\ ret = NoCall
    /\ arg \in RunnerCalls
    /\ ret' = _call_intelligence_step_with_retry(arg.max_retries, arg.outs, learnings_ok)
    /\ UNCHANGED <<pipelineVars, arg>>

ResumeGeneration ==
    /\ ret = NoCall
    /\ arg \in ResumeCalls
    /\ ret' = resume_generation(arg.outs, learnings_ok)
    /\ UNCHANGED <<pipelineVars, arg>>

NextLog == IntelligenceStep \/ ResumeGeneration

SpecLog == InitLog /\ [][NextLog]_vars

(* What the same call comes to in the run whose learnings.yaml is in the   *)
(* other condition                                                         *)
OtherRun ==
    IF arg \in RunnerCalls
    THEN _call_intelligence_step_with_retry(arg.max_retries, arg.outs, ~learnings_ok)
    ELSE resume_generation(arg.outs, ~learnings_ok)

(* C30: the incident log is write-only: two runs that differ only in what  *)
(* learnings.yaml held before (nothing, a log, or something unreadable)    *)
(* take the same stage transitions, make the same generation calls and end *)
(* in the same outcome.                                                    *)
C30_IncidentLogWriteOnly ==
    ret # NoCall => ret = OtherRun

----------------------------------------------------------------------------
(* The files which a compilation leaves *)

LogKept == (arg.base \o ".log") \in DOMAIN ret.fs

(* C31: when the compilation fails, the log of the compiler is still in    *)
(* the output directory afterwards: the auxiliary files are removed on the *)
(* path that ends in success only.                                         *)
C31_LogKeptOnFailure ==
    (Returned /\ ret.err # "none") => LogKept

(* The first pass fails: it runs into the timeout, or it exits with an    *)
(* error and there is no PDF after it                                      *)
FirstPassFails ==
    \/ arg.o1.timeout
    \/ arg.o1.rc # 0 /\ ~arg.o1.pdf /\ (arg.base \o ".pdf") \notin DOMAIN arg.fs

(* C32: a call of compile_latex_to_pdf that succeeds has run the compiler  *)
(* exactly twice, and a first pass that fails keeps the second from        *)
(* running.                                                                *)
C32_TwoPasses ==
    Returned => /\ ret.err = "none" => ret.passes = 2
                /\ FirstPassFails => ret.passes = 1 /\ ret.err # "none"
                /\ ~FirstPassFails => ret.passes = 2

(* Success although the first pass exits with an error: the PDF is there *)
C32_Witness ==
    /\ Returned
    /\ arg.o1.rc # 0 /\ ~FirstPassFails
    /\ ret.err = "none" /\ ret.passes = 2

----------------------------------------------------------------------------
(* TemplateRenderer.render_resume, called on its own *)

(* The code point of a character *)
ord(c) ==
    CASE c = "-" -> 45
      [] c \in Digits -> 48 + CHOOSE n \in 0..9 : ToString(n) = c
      [] c = "P" -> 80
      [] c = "c" -> 99
      [] c = "e" -> 101
      [] c = "n" -> 110
      [] c = "o" -> 111
      [] c = "p" -> 112
      [] c = "r" -> 114
      [] c = "s" -> 115
      [] c = "t" -> 116
      [] c = "u" -> 117
      [] OTHER -> 119

(* str.lower *)
lower(v) == [i \in DOMAIN v |-> IF v[i] = "P" THEN "p" ELSE v[i]]

(* a < b for strings: the order of the code points, a prefix first *)
RECURSIVE str_lt(_, _)
str_lt(a, b) ==
    IF b = <<>> THEN FALSE
    ELSE IF a = <<>> THEN TRUE
    ELSE IF a[1] # b[1] THEN ord(a[1]) < ord(b[1])
    ELSE str_lt(Tail(a), Tail(b))

(* The dates of the entries: "2023-10", "2023-9", "2024-06", "1999", "",   *)
(* "Present", "present", "current", "now"                                  *)
DateStrings ==
    {<<"2", "0", "2", "3", "-", "1", "0">>,
     <<"2", "0", "2", "3", "-", "9">>,
     <<"2", "0", "2", "4", "-", "0", "6">>,
     <<"1", "9", "9", "9">>,
     <<>>,
     <<"P", "r", "e", "s", "e", "n", "t">>,
     <<"p", "r", "e", "s", "e", "n", "t">>,
     <<"c", "u", "r", "r", "e", "n", "t">>,
     <<"n", "o", "w">>}

(* The key of an education entry and of a work experience *)
graduation_key(x) == x.graduation_date

get_sort_key(exp) ==
    IF lower(exp.start_date) = <<"p", "r", "e", "s", "e", "n", "t">>
    THEN <<"9", "9", "9", "9", "-", "9", "9">>
    ELSE exp.start_date

(* sorted(list, key=key, reverse=True): by key descending, entries with    *)
(* equal keys in the order they had.  x goes behind every entry whose key  *)
(* is not below its own.                                                   *)
RECURSIVE insert_desc(_, _)
insert_desc(x, list) ==
    IF list = <<>> THEN <<x>>
    ELSE IF str_lt(list[1].key, x.key) THEN <<x>> \o list
    ELSE <<list[1]>> \o insert_desc(x, Tail(list))

RECURSIVE sorted_desc(_, _)
sorted_desc(list, n) ==
    IF n = 0 THEN <<>>
    ELSE insert_desc(list[n], sorted_desc(list, n - 1))

sorted_reverse(list, key(_)) ==
    LET keyed == [i \in DOMAIN list |-> [key |-> key(list[i]), item |-> list[i]]]
        s == sorted_desc(keyed, Len(keyed))
    IN [i \in DOMAIN s |-> s[i].item]

(* What render_resume leaves and returns: the dictionary it was given,     *)
(* with the sorted lists assigned to its keys, and the markup, which has   *)
(* the entries in the order of these lists.                                *)
render_resume_entries(data) ==
    LET sorted == [data EXCEPT
                     !.education = sorted_reverse(data.education, graduation_key),
                     !.work_experience = sorted_reverse(data.work_experience, get_sort_key)]
    IN [resume_data |-> sorted,
        markup |-> [template |-> "resume.jinja2", education |-> sorted.education,
                    work_experience |-> sorted.work_experience]]

(* A resume with n education entries and n work experiences *)
ResumeEntries ==
    UNION { UNION { { [education |->
                          [i \in 1..n |-> [institution |-> i, graduation_date |-> g[i]]],
                      work_experience |->
                          [i \in 1..n |-> [company |-> i, start_date |-> w[i]]]] :
                        w \in [1..n -> {g[k] : k \in 1..n}] } :
                    g \in [1..n -> DateStrings] } :
            n \in 1..MaxEntries }

InitRender ==
    /\ AtRest
    /\ arg \in ResumeEntries
    /\ ret = NoCall

RenderResume ==
    /\ ret = NoCall
    /\ ret' = render_resume_entries(arg)
    /\ UNCHANGED <<pipelineVars, arg>>

NextRender == RenderResume

SpecRender == InitRender /\ [][NextRender]_vars

(* C33: rendering does not modify what it is given: after render_resume    *)
(* the resume data, the order of its education and work_experience lists   *)
(* included, is as it was, and rendering it again gives the same markup.   *)
C33_RenderingLeavesInput ==
    ret # NoCall => /\ ret.resume_data = arg
                    /\ render_resume_entries(ret.resume_data).markup = ret.markup

(* The number which a digit stands for *)
DigitValue(c) == ord(c) - 48

(* datetime.strptime(d, '%Y-%m') succeeds: four digits, a dash, a month *)
Parses(d) ==
    /\ Len(d) \in {6, 7}
    /\ \A i \in 1..4 : isdigit(d[i])
    /\ d[5] = "-"
    /\ \A i \in 6..Len(d) : isdigit(d[i])
    /\ LET m == IF Len(d) = 6 THEN DigitValue(d[6])
                ELSE 10 * DigitValue(d[6]) + DigitValue(d[7])
       IN m \in 1..12

(* The month which a date that parses names, counted from the year 0 *)
MonthOf(d) ==
    12 * (1000 * DigitValue(d[1]) + 100 * DigitValue(d[2]) + 10 * DigitValue(d[3])
          + DigitValue(d[4]))
    + (IF Len(d) = 6 THEN DigitValue(d[6]) ELSE 10 * DigitValue(d[6]) + DigitValue(d[7]))

(* The dates are in descending order, one that does not parse (a marker    *)
(* such as Present among them) counting as the latest                      *)
LatestFirst(dates) ==
    \A i, j \in DOMAIN dates :
        i < j => \/ ~Parses(dates[i])
                 \/ Parses(dates[j]) /\ MonthOf(dates[i]) >= MonthOf(dates[j])

(* C35: for every resume, the rendering has the education in descending    *)
(* order of graduation date and the work experience in descending order of *)
(* start date, a marker (Present, current, now) and any date that does not *)
(* parse ordered as the latest, that is first.                             *)
C35_LatestFirst ==
    ret # NoCall =>
        /\ LatestFirst([i \in DOMAIN ret.markup.education |->
                            ret.markup.education[i].graduation_date])
        /\ LatestFirst([i \in DOMAIN ret.markup.work_experience |->
                            ret.markup.work_experience[i].start_date])

----------------------------------------------------------------------------
(* TemplateRenderer.latex_escape, called on its own *)

(* str.replace(c, rep) for a character c: every c of the text gives way to *)
(* rep.  The letters of a command name are one element of the sequence.    *)
RECURSIVE replace(_, _, _)
replace(text, c, rep) ==
    IF text = <<>> THEN <<>>
    ELSE (IF text[1] = c THEN rep ELSE <<text[1]>>) \o replace(Tail(text), c, rep)

(* The replacements after the one of the backslash, in the order of the    *)
(* dictionary                                                              *)
replacements ==
    << <<"&", <<"\\", "&">> >>,
       <<"%", <<"\\", "%">> >>,
       <<"$", <<"\\", "$">> >>,
       <<"#", <<"\\", "#">> >>,
       <<"_", <<"\\", "_">> >>,
       <<"{", <<"\\", "{">> >>,
       <<"}", <<"\\", "}">> >>,
       <<"~", <<"\\", "textasciitilde", "{", "}">> >>,
       <<"^", <<"\\", "textasciicircum", "{", "}">> >> >>

RECURSIVE apply_replacements(_, _)
apply_replacements(text, n) ==
    IF n = 0 THEN text
    ELSE replace(apply_replacements(text, n - 1), replacements[n][1], replacements[n][2])

latex_escape(text) ==
    apply_replacements(replace(text, "\\", <<"\\", "textbackslash", "{", "}">>),
                       Len(replacements))

EscapeInputs == Strings({"a", "\\", "&", "{", "}", "~"}, 0, MaxText)

InitEscape ==
    /\ AtRest
    /\ arg \in EscapeInputs
    /\ ret = NoCall

LatexEscape ==
    /\ ret = NoCall
    /\ ret' = [text |-> latex_escape(arg)]
    /\ UNCHANGED <<pipelineVars, arg>>

NextEscape == LatexEscape

SpecEscape == InitEscape /\ [][NextEscape]_vars

(* The escape of one character *)
EscapeOf(c) ==
    IF c = "\\" THEN <<"\\", "textbackslash", "{", "}">>
    ELSE IF \E n \in DOMAIN replacements : replacements[n][1] = c
         THEN replacements[CHOOSE n \in DOMAIN replacements : replacements[n][1] = c][2]
         ELSE <<c>>

RECURSIVE EscapedOnce(_)
EscapedOnce(text) ==
    IF text = <<>> THEN <<>> ELSE EscapeOf(text[1]) \o EscapedOnce(Tail(text))

(* C34: latex_escape escapes every reserved character of its input exactly *)
(* once: what an earlier replacement puts in is not escaped by a later     *)
(* one, and the result is the escapes of the characters of the input put   *)
(* together.                                                               *)
C34_EscapedExactlyOnce ==
    ret # NoCall => ret.text = EscapedOnce(arg)

----------------------------------------------------------------------------
(* The sanitizing validators of ContactInfo, Project and TailoredResume,   *)
(* called on their own                                                     *)

(* re.sub(r'[<>[]{}\\|~^]', '', t), the pattern of the validators of the   *)
(* technologies and of the skills.  The class ends at the first ']' and    *)
(* holds '<', '>' and '['; the pattern is the class followed by '{}' and a *)
(* backslash, or else '~' followed by the start of the text and ']', which *)
(* nothing matches.                                                        *)
RECURSIVE re_sub_unescaped(_)
re_sub_unescaped(t) ==
    IF t = <<>> THEN <<>>
    ELSE IF /\ Len(t) >= 4
            /\ t[1].c \in {"<", ">", "["}
            /\ t[2] = Run("{", 1)
            /\ t[3] = Run("}", 1)
            /\ t[4].c = "\\"
         THEN (IF t[1].n > 1 THEN <<Run(t[1].c, t[1].n - 1)>> ELSE <<>>)
              \o re_sub_unescaped((IF t[4].n > 1 THEN <<Run("\\", t[4].n - 1)>> ELSE <<>>)
                                  \o SubSeq(t, 5, Len(t)))
         ELSE <<t[1]>> \o re_sub_unescaped(Tail(t))

(* sanitize_name and sanitize_location *)
sanitize_name(v) == IF v = <<>> THEN v ELSE strip_runs(re_sub_illegal(v))

(* ", ".join(list) *)
RECURSIVE join(_)
join(list) ==
    IF list = <<>> THEN <<>>
    ELSE IF Len(list) = 1 THEN list[1]
    ELSE list[1] \o <<Run(",", 1), Run(" ", 1)>> \o join(Tail(list))

validate_technologies_length(v) ==
    LET sanitized == [i \in DOMAIN v |-> strip_runs(re_sub_unescaped(v[i]))]
    IN IF RunsLen(join(sanitized)) > max_technologies_length
       THEN [error |-> "Technologies exceed 70 characters when joined"]
       ELSE [value |-> sanitized]

(* validate_skills_length, for a dictionary of one category *)
validate_skills_length(category, skills_str) ==
    LET clean_category == strip_runs(re_sub_unescaped(category))
        clean_skills == strip_runs(re_sub_unescaped(skills_str))
    IN IF RunsLen(clean_category) > max_category_length
       THEN [error |-> "Category name exceeds 30 characters"]
       ELSE IF RunsLen(clean_skills) > max_skills_length
            THEN [error |-> "Skills exceed 90 characters"]
            ELSE [value |-> <<clean_category, clean_skills>>]

SanitizedFields == {"first_name", "last_name", "location"}
PlainFields == {"email", "linkedin_url", "github_url", "portfolio_url"}

(* Texts of letters about the limits, with and without an illegal          *)
(* character behind them, and the text which the pattern above matches     *)
FieldTexts ==
    { <<Run("a", n)>> :
        n \in {1, max_category_length, max_technologies_length, max_skills_length} }
    \cup { <<Run("a", n), Run(c, 1)>> :
             n \in {1, max_category_length, max_technologies_length, max_skills_length},
             c \in {"<", "|", "~", " "} }
    \cup { <<Run("<", 1), Run("{", 1), Run("}", 1), Run("\\", 1), Run("a", 1)>> }

FieldInputs ==
    { [field |-> f, value |-> <<t>>] : f \in SanitizedFields \cup PlainFields, t \in FieldTexts }
    \cup { [field |-> "technologies", value |-> v] :
             v \in UNION { [1..n -> FieldTexts] : n \in 1..2 } }
    \cup { [field |-> "skills", value |-> <<c, t>>] : c \in FieldTexts, t \in FieldTexts }

InitFields ==
    /\ AtRest
    /\ arg \in FieldInputs
    /\ ret = NoCall

(* The validators of the string fields of ContactInfo: the e-mail address  *)
(* and the three URLs have none                                            *)
ValidateContactField ==
    /\ ret = NoCall
    /\ arg.field \in SanitizedFields \cup PlainFields
    /\ ret' = [value |-> <<IF arg.field \in SanitizedFields THEN sanitize_name(arg.value[1])
                           ELSE arg.value[1]>>]
    /\ UNCHANGED <<pipelineVars, arg>>

ValidateTechnologies ==
    /\ ret = NoCall
    /\ arg.field = "technologies"
    /\ ret' = validate_technologies_length(arg.value)
    /\ UNCHANGED <<pipelineVars, arg>>

ValidateSkills ==
    /\ ret = NoCall
    /\ arg.field = "skills"
    /\ ret' = validate_skills_length(arg.value[1], arg.value[2])
    /\ UNCHANGED <<pipelineVars, arg>>

NextFields == ValidateContactField \/ ValidateTechnologies \/ ValidateSkills

SpecFields == InitFields /\ [][NextFields]_vars

(* No character of the text is one of <>[]{}\|~^ *)
Sanitized(t) == \A i \in DOMAIN t : t[i].c \notin IllegalChars

(* C36: in what the validators accept, no contact field, skills category,  *)
(* skills string or technology holds any of the characters <>[]{}\|~^, and *)
(* the limits of 30, 90 and 70 characters hold of the sanitized values.    *)
C36_FieldsSanitized ==
    (ret # NoCall /\ "value" \in DOMAIN ret) =>
        /\ \A i \in DOMAIN ret.value : Sanitized(ret.value[i])
        /\ arg.field = "technologies" => RunsLen(join(ret.value)) <= max_technologies_length
        /\ arg.field = "skills" => /\ RunsLen(ret.value[1]) <= max_category_length
                                   /\ RunsLen(ret.value[2]) <= max_skills_length

----------------------------------------------------------------------------
(* The number of generation calls of a job *)

CallsOf(j) ==
    calls[j]["resonance"] + calls[j]["research"] + calls[j]["resume"] + calls[j]["arc"]
    + calls[j]["cover"]

(* C37: each of the five generation stages of a job starts with a fresh    *)
(* attempt counter and makes at most 2 generation calls, whatever the      *)
(* attempts of the stages before; each call makes at most 2 transport      *)
(* attempts; so a job makes at most 10 generation calls and, with 2        *)
(* requests a call, at most 20 transport requests.                         *)
C37_CallsBounded ==
    \A j \in Jobs :
        /\ \A s \in GenStages : calls[j][s] <= 2
        /\ apiTry[j] <= 2
        /\ CallsOf(j) <= 10
        /\ 2 * CallsOf(j) <= 20
        /\ pc[j] \in GenStages =>
              /\ attempt[j] \in 1..2
              /\ calls[j][pc[j]] = IF sub[j] = "call" THEN attempt[j] - 1 ELSE attempt[j]

(* A stage on its second call after the stage before it made two *)
C37_Witness ==
    \E j \in Jobs :
        /\ pc[j] = "research"
        /\ calls[j]["resonance"] = 2
        /\ calls[j]["research"] = 2
        /\ attempt[j] = 2

----------------------------------------------------------------------------
(* The status of the jobs in the applications file *)

CleanedUp(j) == DOMAIN files[j] \subseteq final_pdfs(tailored_resume[j].first_name, j)

----------------------------------------------------------------------------
(* C39: every job gives its slot back when it finishes, by return or by    *)
(* exception: the slots taken are exactly those of the jobs in progress,   *)
(* so a job that is done or failed holds none; a waiting job can enter as  *)
(* soon as fewer than max_concurrent_jobs jobs are in progress and the     *)
(* event loop is free; and when run() has returned every slot is free.     *)
SlotsTaken == max_concurrent_jobs - semaphore

C39_SlotsReleased ==
    /\ runState \in {"gathering", "returned"} => SlotsTaken = Cardinality(InProgress)
    /\ \A j \in Jobs :
          (/\ runState = "gathering"
           /\ pc[j] = "waiting"
           /\ cur = 0
           /\ Cardinality(InProgress) < max_concurrent_jobs) => ENABLED Acquire(j)
    /\ runState = "returned" => SlotsTaken = 0 /\ InProgress = {}

(* With one slot, a job failed, the job that waited behind it was admitted *)
(* and finished, and the batch has ended.                                  *)
C39_Witness ==
    /\ runState = "returned"
    /\ max_concurrent_jobs = 1
    /\ \E j, k \in Jobs :
          /\ j # k
          /\ InBatch(j) /\ pc[j] = "failed"
          /\ InBatch(k) /\ pc[k] = "done"

----------------------------------------------------------------------------
(* C40: with max_concurrent_jobs >= 1 and generation calls and compiler    *)
(* invocations that always return or fail, every pending job of a batch    *)
(* eventually is done or failed and run() eventually returns: no job waits *)
(* for a slot forever and no retry loop goes on forever.                   *)
C40_BatchTerminates ==
    /\ \A j \in Jobs :
          (runState = "gathering" /\ InBatch(j)) ~> (pc[j] \in {"done", "failed"})
    /\ (runState = "gathering") ~> (runState = "returned")

(* A batch with more jobs than slots has ended; one of its jobs used up    *)
(* the attempts of a generation stage.                                     *)
C40_Witness ==
    /\ runState = "returned"
    /\ max_concurrent_jobs < Len(pending_jobs)
    /\ \A j \in Jobs : InBatch(j) => pc[j] \in {"done", "failed"}
    /\ \E j \in Jobs : InBatch(j) /\ failed_at[j] \in GenStages /\ attempt[j] > 1

====
